---- MODULE Spec2Model ----
(***************************************************************************)
(* Model of the puvi-backend request handlers and the relational tables    *)
(* they read and write.  Every handler runs as one database transaction:   *)
(* it is modelled as the list of SQL statements it issues, applied in      *)
(* order to a working copy of the tables and then committed, or discarded  *)
(* by the handler's rollback when a statement raises.                      *)
(*                                                                         *)
(* Quantities are whole kilograms.  Money is counted in ticks, the         *)
(* smallest amount a stored column can tell apart; every float(...)        *)
(* conversion of a quotient at the storage boundary is a RoundDiv.         *)
(***************************************************************************)
EXTENDS Integers, Sequences, FiniteSets, TLC

VARIABLES
    db,       \* the committed contents of the tables
    last,     \* the last request and its response
    calls,    \* receipts handed to update_inventory in the receipt-order runs
    applied,  \* indices of calls already applied
    txn       \* the open transaction of each worker in the concurrent runs

vars == <<db, last, calls, applied, txn>>

-----------------------------------------------------------------------------
(* Bounds *)

MaxFifoBatches == 3   \* batches in the FIFO runs
MaxFifoSales == 2     \* sales in the FIFO runs
MaxCostBatches == 1   \* batches in the cost-adjustment runs
MaxCostSales == 2     \* sales in the cost-adjustment runs
MaxCalls == 3         \* receipts in the receipt-order runs
MaxBatches == 3       \* batches in the batch-failure runs
MaxLedgerPurchases == 2  \* purchases in the ledger runs
MaxLedgerBatches == 2    \* batches in the ledger runs
MaxBlends == 2           \* blends in the ledger runs
MaxWriteoffs == 1        \* write-offs in the ledger runs
MaxSeedBatches == 3      \* batches in the seed-consumption runs
MaxPctBatches == 2       \* batches in the percentage runs
MaxPctBlends == 2        \* blends in the percentage runs
MaxPurchases == 2        \* purchases in the purchase runs
MaxYieldBatches == 2     \* batches in the yield runs
MaxLegacyPurchases == 2  \* purchases in the runs of the single-item purchase handler
MaxConsumeBatches == 2   \* batches in the consumption runs
MaxConsumeBlends == 1    \* blends in the consumption runs
MaxConsumeWriteoffs == 1 \* write-offs in the consumption runs
MaxMixBatches == 2       \* batches in the blend-cost runs
MaxMixBlends == 2        \* blends in the blend-cost runs
MaxDetailBatches == 2    \* batches in the cost-detail runs
MaxRowsWriteoffs == 2    \* write-offs in the inventory-row runs
MaxRowsBatches == 1      \* batches in the inventory-row runs
MaxStatusPurchases == 2  \* purchases in the status-code runs
MaxMergeBatches == 2     \* batches in the merged-lot runs
MaxMergeBlends == 2      \* blends in the merged-lot runs
MaxWriteoffRuns == 2     \* write-offs in the write-off runs
MaxFrameBatches == 2     \* batches in the frame runs
MaxFrameBlends == 1      \* blends in the frame runs
MaxFrameSales == 2       \* sales in the frame runs
MaxSerialCalls == 4      \* calls of get_next_serial in the serial runs

-----------------------------------------------------------------------------
(* Values and helpers *)

\* SQL NULL: a value outside the range of every column.
NULL == 0 - 1000000

\* SQL NULL in a text column (an oil type that is absent).
NullText == "NULL"

\* Value of a numeric inventory column that an INSERT does not name.
ColumnDefault == 0

Coalesce(x, d) == IF x = NULL THEN d ELSE x

Min(a, b) == IF a <= b THEN a ELSE b

Abs(a) == IF a < 0 THEN 0 - a ELSE a

\* a / b rounded to the nearest tick, ties to even: what survives of a
\* quotient once it is converted with float(...) and stored.  b > 0.
RoundDiv(a, b) ==
    LET q == a \div b
        r == a - q * b
    IN  IF 2 * r < b THEN q
        ELSE IF 2 * r > b THEN q + 1
        ELSE IF q % 2 = 0 THEN q ELSE q + 1

RECURSIVE SumSeq(_)
SumSeq(s) == IF s = <<>> THEN 0 ELSE Head(s) + SumSeq(Tail(s))

RECURSIVE SumOver(_, _)
\* Sum of f[x] over the finite set S.
SumOver(f, S) ==
    IF S = {} THEN 0
    ELSE LET x == CHOOSE y \in S : TRUE IN f[x] + SumOver(f, S \ {x})

Indices(s) == 1..Len(s)

\* All orderings of the ids in S that are ascending in key (ORDER BY key ASC);
\* rows with equal keys may come back in either order.
AscendingOrders(S, key) ==
    {s \in [1..Cardinality(S) -> S] :
        /\ \A i, j \in 1..Cardinality(S) : i # j => s[i] # s[j]
        /\ \A i, j \in 1..Cardinality(S) : i < j => key[s[i]] <= key[s[j]]}

-----------------------------------------------------------------------------
(* Tables *)

NumMaterials == 1
Materials == 1..NumMaterials

EmptyDb ==
    [ materials                 |-> [m \in Materials |-> [current_cost |-> NULL]],
      inventory                 |-> <<>>,
      purchases                 |-> <<>>,
      purchase_items            |-> <<>>,
      batch                     |-> <<>>,
      batch_cost_details        |-> <<>>,
      oil_cake_inventory        |-> <<>>,
      oil_cake_sales            |-> <<>>,
      oil_cake_sale_allocations |-> <<>>,
      blend_batches             |-> <<>>,
      blend_batch_components    |-> <<>>,
      material_writeoffs        |-> <<>>,
      serial_number_tracking    |-> <<>>,
      batch_extended_costs      |-> <<>>,
      batch_time_tracking       |-> <<>>,
      cost_override_log         |-> <<>> ]

\* No request body: before the first request, and in a 500 response, which
\* carries the error alone.
NoData == <<>>

NoRequest == [op |-> "none", status |-> 0, error |-> "", data |-> NoData, done |-> 0]

\* Workers that serve requests at the same time, each on a connection and a
\* transaction of its own.
NumWorkers == 2
Workers == 1..NumWorkers

IdleTransaction ==
    [pc |-> "idle", kind |-> "", quantity |-> 0, cost |-> 0, current_stock |-> 0, current_avg |-> 0]

NoTransactions == [w \in Workers |-> IdleTransaction]

\* Rows of the inventory table that belong to material m.
MaterialRows(inv, m) == {i \in Indices(inv) : inv[i].material_id = m}

\* ORDER BY inventory_id DESC LIMIT 1 over a set of row ids.
LatestRow(S) == CHOOSE i \in S : \A j \in S : j <= i

-----------------------------------------------------------------------------
(* Inventory ledger: update_inventory *)

\* The weighted average written back by a receipt into a lot that holds
\* current_stock at current_avg.
NewAverage(current_stock, current_avg, qty_purchased, landed_cost_per_unit) ==
    LET total_value == (current_stock * current_avg) + (qty_purchased * landed_cost_per_unit)
        new_stock   == current_stock + qty_purchased
    IN  IF new_stock > 0 THEN RoundDiv(total_value, new_stock) ELSE landed_cost_per_unit

\* The row update_inventory reads with fetchone().  In every run of this
\* model the receipts of a material precede any handler that adds a second
\* row for it, so the SELECT returns the one row there is.
FetchMaterialRow(inv, material_id) == LatestRow(MaterialRows(inv, material_id))

\* The UPDATE of update_inventory: closing_stock and weighted_avg_cost are
\* set to the values computed from what the SELECT returned (current_stock,
\* current_avg), purchases is raised in place.
UpdateLot(inv, id, current_stock, current_avg, qty_purchased, landed_cost_per_unit) ==
    [inv EXCEPT ![id] =
        [@ EXCEPT
            !.closing_stock = current_stock + qty_purchased,
            !.weighted_avg_cost = NewAverage(current_stock, current_avg,
                                             qty_purchased, landed_cost_per_unit),
            !.purchases = @ + qty_purchased]]

update_inventory(inv, material_id, qty_purchased, landed_cost_per_unit) ==
    IF MaterialRows(inv, material_id) # {}
    THEN LET id == FetchMaterialRow(inv, material_id)
             row == inv[id]
         IN  UpdateLot(inv, id, row.closing_stock, row.weighted_avg_cost,
                       qty_purchased, landed_cost_per_unit)
    ELSE Append(inv,
            [ material_id         |-> material_id,
              oil_type            |-> NullText,
              source_type         |-> "",
              source_reference_id |-> NULL,
              is_bulk_oil         |-> FALSE,
              opening_stock       |-> 0,
              purchases           |-> qty_purchased,
              consumption         |-> ColumnDefault,
              closing_stock       |-> qty_purchased,
              weighted_avg_cost   |-> landed_cost_per_unit ])

-----------------------------------------------------------------------------
(* By-product sales: add_material_sale *)

\* Rows of oil_cake_inventory offered to a sale, before ordering.
CakeLotsForSale(d, oil_type) ==
    {i \in Indices(d.oil_cake_inventory) :
        /\ d.oil_cake_inventory[i].quantity_remaining > 0
        /\ (oil_type = NullText \/ d.batch[d.oil_cake_inventory[i].batch_id].oil_type = oil_type)}

SludgeRemaining(b) == b.sludge_yield - Coalesce(b.sludge_sold_quantity, 0)

\* Batches whose sludge is offered to a sale, before ordering.
SludgeLotsForSale(d, oil_type) ==
    {i \in Indices(d.batch) :
        /\ d.batch[i].sludge_yield > 0
        /\ SludgeRemaining(d.batch[i]) > 0
        /\ (oil_type = NullText \/ d.batch[i].oil_type = oil_type)}

CakeEntry(d, i) ==
    [ inventory_id       |-> i,
      batch_id           |-> d.oil_cake_inventory[i].batch_id,
      quantity_remaining |-> d.oil_cake_inventory[i].quantity_remaining,
      estimated_rate     |-> d.oil_cake_inventory[i].estimated_rate,
      production_date    |-> d.oil_cake_inventory[i].production_date,
      oil_type           |-> d.batch[d.oil_cake_inventory[i].batch_id].oil_type ]

SludgeEntry(d, i) ==
    [ inventory_id       |-> i,
      batch_id           |-> i,
      quantity_remaining |-> SludgeRemaining(d.batch[i]),
      estimated_rate     |-> Coalesce(d.batch[i].sludge_estimated_rate, 0),
      production_date    |-> d.batch[i].production_date,
      oil_type           |-> d.batch[i].oil_type ]

\* Mutant of SortKey: ORDER BY production_date DESC.
SortKeyDescending(production_date) == 0 - production_date

\* The production date a sale sorts a lot by.
SortKey(production_date) == production_date

\* Every list available_batches can be after the SELECT ... ORDER BY
\* production_date ASC of the requested by-product type.
AvailableBatches(d, byproduct_type, oil_type) ==
    IF byproduct_type = "oil_cake"
    THEN LET S == CakeLotsForSale(d, oil_type)
             key == [i \in S |-> SortKey(d.oil_cake_inventory[i].production_date)]
         IN  {[n \in 1..Cardinality(S) |-> CakeEntry(d, o[n])] : o \in AscendingOrders(S, key)}
    ELSE IF byproduct_type = "sludge"
    THEN LET S == SludgeLotsForSale(d, oil_type)
             key == [i \in S |-> SortKey(d.batch[i].production_date)]
         IN  {[n \in 1..Cardinality(S) |-> SludgeEntry(d, o[n])] : o \in AscendingOrders(S, key)}
    ELSE {<<>>}

RECURSIVE TotalAvailable(_)
TotalAvailable(available_batches) ==
    IF available_batches = <<>> THEN 0
    ELSE Head(available_batches).quantity_remaining + TotalAvailable(Tail(available_batches))

\* Mutant of InsufficientInventory: only an empty stock is refused.
InsufficientInventoryIfEmpty(total_available, quantity_to_sell) == total_available <= 0

\* The stock check that rejects a sale.
InsufficientInventory(total_available, quantity_to_sell) == total_available < quantity_to_sell

\* Mutant of AllocationQty: the whole remaining quantity is taken from the lot.
AllocationQtyUncapped(remaining_quantity, lot_quantity_remaining) == remaining_quantity

\* The quantity taken from one lot.
AllocationQty(remaining_quantity, lot_quantity_remaining) ==
    Min(remaining_quantity, lot_quantity_remaining)

InsertSale(t, data, oil_type) ==
    [t EXCEPT !.oil_cake_sales = Append(@,
        [ oil_type      |-> oil_type,
          grade         |-> data.byproduct_type,
          quantity_sold |-> data.quantity_sold,
          sale_rate     |-> data.sale_rate,
          total_amount  |-> data.quantity_sold * data.sale_rate ])]

InsertAllocation(t, sale_id, batch, allocation_qty, sale_rate) ==
    [t EXCEPT !.oil_cake_sale_allocations = Append(@,
        [ sale_id                |-> sale_id,
          batch_id               |-> batch.batch_id,
          quantity_allocated     |-> allocation_qty,
          original_estimate_rate |-> batch.estimated_rate,
          actual_sale_rate       |-> sale_rate,
          cost_adjustment_per_kg |-> batch.estimated_rate - sale_rate,
          oil_cost_adjustment    |-> (allocation_qty * batch.estimated_rate)
                                        - (allocation_qty * sale_rate) ])]

UpdateCakeRemaining(t, inventory_id, allocation_qty) ==
    [t EXCEPT !.oil_cake_inventory[inventory_id].quantity_remaining = @ - allocation_qty]

\* Mutant of UpdateBatchSold: the sold quantity is overwritten, not added to.
UpdateBatchSoldOverwrite(t, byproduct_type, batch_id, allocation_qty, sale_rate) ==
    IF byproduct_type = "oil_cake"
    THEN [t EXCEPT !.batch[batch_id].cake_sold_quantity = allocation_qty,
                   !.batch[batch_id].cake_actual_rate = sale_rate]
    ELSE [t EXCEPT !.batch[batch_id].sludge_sold_quantity = allocation_qty,
                   !.batch[batch_id].sludge_actual_rate = sale_rate]

UpdateBatchSold(t, byproduct_type, batch_id, allocation_qty, sale_rate) ==
    IF byproduct_type = "oil_cake"
    THEN [t EXCEPT !.batch[batch_id].cake_sold_quantity = Coalesce(@, 0) + allocation_qty,
                   !.batch[batch_id].cake_actual_rate = sale_rate]
    ELSE [t EXCEPT !.batch[batch_id].sludge_sold_quantity = Coalesce(@, 0) + allocation_qty,
                   !.batch[batch_id].sludge_actual_rate = sale_rate]

\* net_oil_cost as the sale recomputes it for one allocation.
NewNetOilCost(b, byproduct_type, allocation_qty, sale_rate) ==
    LET total_cost      == b.total_production_cost
        cake_yield      == Coalesce(b.oil_cake_yield, 0)
        cake_est_rate   == Coalesce(b.cake_estimated_rate, 0)
        sludge_yield    == Coalesce(b.sludge_yield, 0)
        sludge_est_rate == Coalesce(b.sludge_estimated_rate, 0)
        adjustment ==
            IF byproduct_type = "oil_cake"
            THEN (cake_yield * cake_est_rate)
                 - (allocation_qty * sale_rate + (cake_yield - allocation_qty) * cake_est_rate)
            ELSE (sludge_yield * sludge_est_rate)
                 - (allocation_qty * sale_rate + (sludge_yield - allocation_qty) * sludge_est_rate)
    IN  total_cost - (cake_yield * cake_est_rate) - (sludge_yield * sludge_est_rate) + adjustment

\* Mutant of AdjustBatchOilCost: the new cost per kg is also written to the
\* oil lot created for the batch.
AdjustBatchOilCostAndLot(t, byproduct_type, batch_id, allocation_qty, sale_rate) ==
    LET b == t.batch[batch_id]
        new_net_oil_cost == NewNetOilCost(b, byproduct_type, allocation_qty, sale_rate)
        new_oil_cost_per_kg == IF b.oil_yield > 0 THEN RoundDiv(new_net_oil_cost, b.oil_yield) ELSE 0
    IN  [t EXCEPT !.batch[batch_id].net_oil_cost = new_net_oil_cost,
                  !.batch[batch_id].oil_cost_per_kg = new_oil_cost_per_kg,
                  !.inventory = [i \in Indices(@) |->
                      IF @[i].source_type = "extraction" /\ @[i].source_reference_id = batch_id
                      THEN [@[i] EXCEPT !.weighted_avg_cost = new_oil_cost_per_kg]
                      ELSE @[i]]]

AdjustBatchOilCost(t, byproduct_type, batch_id, allocation_qty, sale_rate) ==
    LET b == t.batch[batch_id]
        new_net_oil_cost == NewNetOilCost(b, byproduct_type, allocation_qty, sale_rate)
    IN  [t EXCEPT !.batch[batch_id].net_oil_cost = new_net_oil_cost,
                  !.batch[batch_id].oil_cost_per_kg =
                      IF b.oil_yield > 0 THEN RoundDiv(new_net_oil_cost, b.oil_yield) ELSE 0]

\* The statements of one pass of the FIFO loop.
AllocationStatements(byproduct_type, sale_id, batch, allocation_qty, sale_rate) ==
    LET common == [sale_id |-> sale_id, batch |-> batch, qty |-> allocation_qty,
                   rate |-> sale_rate, type |-> byproduct_type]
    IN  <<[k |-> "insert_allocation"] @@ common>>
        \o (IF byproduct_type = "oil_cake"
            THEN <<[k |-> "update_cake_remaining"] @@ common>> ELSE <<>>)
        \o <<[k |-> "update_batch_sold"] @@ common, [k |-> "adjust_batch_oil_cost"] @@ common>>

RECURSIVE FifoStatements(_, _, _, _, _)
FifoStatements(byproduct_type, sale_id, available_batches, remaining_quantity, sale_rate) ==
    IF available_batches = <<>> \/ remaining_quantity <= 0 THEN <<>>
    ELSE LET batch == Head(available_batches)
             allocation_qty == AllocationQty(remaining_quantity, batch.quantity_remaining)
         IN  AllocationStatements(byproduct_type, sale_id, batch, allocation_qty, sale_rate)
             \o FifoStatements(byproduct_type, sale_id, Tail(available_batches),
                               remaining_quantity - allocation_qty, sale_rate)

\* Every statement add_material_sale issues between BEGIN and COMMIT.
SaleStatements(d, data, available_batches) ==
    <<[k |-> "insert_sale", data |-> data,
       oil_type |-> IF available_batches # <<>> THEN Head(available_batches).oil_type
                    ELSE data.oil_type]>>
    \o FifoStatements(data.byproduct_type, Len(d.oil_cake_sales) + 1, available_batches,
                      data.quantity_sold, data.sale_rate)

-----------------------------------------------------------------------------
(* Purchases: add_purchase *)

ItemAmount(item) == item.quantity * item.rate

ItemTaxable(item) == ItemAmount(item) + item.transport_charges + item.handling_charges

\* Hundredths of a tick of GST on one item (gst_rate is a percentage).
ItemGstHundredths(item) == ItemTaxable(item) * item.gst_rate

LandedCostPerUnit(item) ==
    IF item.quantity > 0
    THEN RoundDiv(100 * ItemTaxable(item) + ItemGstHundredths(item), 100 * item.quantity)
    ELSE 0

RECURSIVE PurchaseSubtotal(_)
PurchaseSubtotal(items) ==
    IF items = <<>> THEN 0 ELSE ItemAmount(Head(items)) + PurchaseSubtotal(Tail(items))

RECURSIVE PurchaseGstHundredths(_)
PurchaseGstHundredths(items) ==
    IF items = <<>> THEN 0
    ELSE ItemGstHundredths(Head(items)) + PurchaseGstHundredths(Tail(items))

InsertPurchase(t, data) ==
    [t EXCEPT !.purchases = Append(@,
        [ transport_cost   |-> data.transport_cost,
          loading_charges  |-> data.handling_charges,
          subtotal         |-> PurchaseSubtotal(data.items),
          total_gst_amount |-> RoundDiv(PurchaseGstHundredths(data.items), 100),
          total_cost       |-> RoundDiv(100 * (PurchaseSubtotal(data.items) + data.transport_cost
                                               + data.handling_charges)
                                        + PurchaseGstHundredths(data.items), 100),
          traceable_code   |-> NULL ])]

InsertPurchaseItem(t, purchase_id, item) ==
    [t EXCEPT !.purchase_items = Append(@,
        [ purchase_id          |-> purchase_id,
          material_id          |-> item.material_id,
          quantity             |-> item.quantity,
          rate                 |-> item.rate,
          amount               |-> ItemAmount(item),
          gst_rate             |-> item.gst_rate,
          gst_amount           |-> RoundDiv(ItemGstHundredths(item), 100),
          transport_charges    |-> item.transport_charges,
          handling_charges     |-> item.handling_charges,
          total_amount         |-> RoundDiv(100 * ItemTaxable(item) + ItemGstHundredths(item), 100),
          landed_cost_per_unit |-> LandedCostPerUnit(item) ])]

ReceivePurchaseItem(t, item) ==
    [t EXCEPT !.inventory =
        update_inventory(@, item.material_id, item.quantity, LandedCostPerUnit(item))]

UpdateMaterialCost(t, material_id) ==
    [t EXCEPT !.materials[material_id].current_cost =
        IF MaterialRows(t.inventory, material_id) = {} THEN NULL
        ELSE t.inventory[LatestRow(MaterialRows(t.inventory, material_id))].weighted_avg_cost]

RECURSIVE PurchaseItemStatements(_, _)
PurchaseItemStatements(purchase_id, items) ==
    IF items = <<>> THEN <<>>
    ELSE <<[k |-> "insert_purchase_item", purchase_id |-> purchase_id, item |-> Head(items)],
           [k |-> "receive_purchase_item", item |-> Head(items)],
           [k |-> "update_material_cost", material_id |-> Head(items).material_id]>>
         \o PurchaseItemStatements(purchase_id, Tail(items))

\* Every statement add_purchase issues between BEGIN and COMMIT.
PurchaseStatements(d, data) ==
    <<[k |-> "insert_purchase", data |-> data]>>
    \o PurchaseItemStatements(Len(d.purchases) + 1, data.items)

\* The single-item purchase handler of purchase_endpoints.py: charges are
\* part of the taxed subtotal, and the purchase row itself names the material.
LegacySubtotal(data) ==
    data.quantity * data.cost_per_unit + data.transport_cost + data.loading_charges

LegacyTotalCost(data) == RoundDiv(LegacySubtotal(data) * (100 + data.gst_rate), 100)

LegacyLandedCostPerUnit(data) ==
    IF data.quantity > 0
    THEN RoundDiv(LegacySubtotal(data) * (100 + data.gst_rate), 100 * data.quantity)
    ELSE 0

InsertLegacyPurchase(t, data) ==
    [t EXCEPT !.purchases = Append(@,
        [ material_id          |-> data.material_id,
          quantity             |-> data.quantity,
          cost_per_unit        |-> data.cost_per_unit,
          gst_rate             |-> data.gst_rate,
          transport_cost       |-> data.transport_cost,
          loading_charges      |-> data.loading_charges,
          total_cost           |-> LegacyTotalCost(data),
          landed_cost_per_unit |-> LegacyLandedCostPerUnit(data) ])]

ReceiveLegacyPurchase(t, data) ==
    [t EXCEPT !.inventory =
        update_inventory(@, data.material_id, data.quantity, LegacyLandedCostPerUnit(data))]

\* SELECT weighted_avg_cost ... fetchone(), then UPDATE materials SET current_cost.
LegacyUpdateMaterialCost(t, data) ==
    [t EXCEPT !.materials[data.material_id].current_cost =
        IF MaterialRows(t.inventory, data.material_id) = {} THEN LegacyLandedCostPerUnit(data)
        ELSE t.inventory[LatestRow(MaterialRows(t.inventory, data.material_id))].weighted_avg_cost]

\* The statements of the handler; conn.commit() follows the second and the third.
LegacyPurchaseStatements(data) ==
    <<[k |-> "insert_legacy_purchase", data |-> data],
      [k |-> "receive_legacy_purchase", data |-> data],
      [k |-> "update_legacy_material_cost", data |-> data]>>

-----------------------------------------------------------------------------
(* Batch production: add_batch *)

\* The traceable code of the latest purchase of the seed, when the request
\* carries none.
LatestPurchaseCode(d, material_id) ==
    LET S == {i \in Indices(d.purchase_items) :
                /\ d.purchase_items[i].material_id = material_id
                /\ d.purchases[d.purchase_items[i].purchase_id].traceable_code # NULL}
    IN  IF S = {} THEN NULL
        ELSE d.purchases[d.purchase_items[LatestRow(S)].purchase_id].traceable_code

\* Mutant of BatchRejection: the seed availability is not looked at.
BatchRejectionNoStock(d, data) ==
    IF data.seed_purchase_code = NULL /\ LatestPurchaseCode(d, data.material_id) = NULL
    THEN "no_traceable_code"
    ELSE IF data.seed_quantity_before_drying <= 0 \/ data.seed_quantity_after_drying <= 0
            \/ data.oil_yield <= 0
    THEN "not_positive"
    ELSE IF data.seed_quantity_after_drying > data.seed_quantity_before_drying
    THEN "after_exceeds_before"
    ELSE ""

\* The 400 response add_batch returns before BEGIN, or "" when it goes on.
BatchRejection(d, data) ==
    IF data.seed_purchase_code = NULL /\ LatestPurchaseCode(d, data.material_id) = NULL
    THEN "no_traceable_code"
    ELSE IF data.seed_quantity_before_drying <= 0 \/ data.seed_quantity_after_drying <= 0
            \/ data.oil_yield <= 0
    THEN "not_positive"
    ELSE IF data.seed_quantity_after_drying > data.seed_quantity_before_drying
    THEN "after_exceeds_before"
    ELSE IF MaterialRows(d.inventory, data.material_id) = {}
    THEN "insufficient_stock"
    ELSE IF d.inventory[LatestRow(MaterialRows(d.inventory, data.material_id))].closing_stock
               < data.seed_quantity_before_drying
    THEN "insufficient_stock"
    ELSE ""

InsertBatch(t, data) ==
    [t EXCEPT !.batch = Append(@,
        [ oil_type                    |-> data.oil_type,
          production_date             |-> data.production_date,
          seed_quantity_before_drying |-> data.seed_quantity_before_drying,
          seed_quantity_after_drying  |-> data.seed_quantity_after_drying,
          oil_yield                   |-> data.oil_yield,
          oil_cake_yield              |-> data.cake_yield,
          sludge_yield                |-> data.sludge_yield,
          total_production_cost       |-> NULL,
          net_oil_cost                |-> NULL,
          oil_cost_per_kg             |-> NULL,
          cake_estimated_rate         |-> NULL,
          sludge_estimated_rate       |-> NULL,
          cake_sold_quantity          |-> NULL,
          cake_actual_rate            |-> NULL,
          sludge_sold_quantity        |-> NULL,
          sludge_actual_rate          |-> NULL ])]

InsertCostDetail(t, batch_id, cost_item) ==
    [t EXCEPT !.batch_cost_details = Append(@,
        [ batch_id      |-> batch_id,
          master_rate   |-> cost_item.master_rate,
          override_rate |-> IF cost_item.override_rate = NULL THEN cost_item.master_rate
                            ELSE cost_item.override_rate,
          quantity      |-> cost_item.quantity,
          total_cost    |-> cost_item.total_cost ])]

RECURSIVE CostDetailsTotal(_)
CostDetailsTotal(cost_details) ==
    IF cost_details = <<>> THEN 0
    ELSE Head(cost_details).total_cost + CostDetailsTotal(Tail(cost_details))

TotalProductionCost(data) == data.seed_cost_total + CostDetailsTotal(data.cost_details)

NetOilCost(data) ==
    TotalProductionCost(data) - (data.cake_yield * data.cake_estimated_rate)
        - (data.sludge_yield * data.sludge_estimated_rate)

OilCostPerKg(data) ==
    IF data.oil_yield > 0 THEN RoundDiv(NetOilCost(data), data.oil_yield) ELSE 0

UpdateBatchCosts(t, batch_id, data) ==
    [t EXCEPT !.batch[batch_id].total_production_cost = TotalProductionCost(data),
              !.batch[batch_id].net_oil_cost = NetOilCost(data),
              !.batch[batch_id].oil_cost_per_kg = OilCostPerKg(data),
              !.batch[batch_id].cake_estimated_rate = data.cake_estimated_rate,
              !.batch[batch_id].sludge_estimated_rate = data.sludge_estimated_rate]

\* 1. Reduce seed inventory.
ConsumeSeed(t, data) ==
    [t EXCEPT !.inventory =
        [i \in Indices(@) |->
            IF @[i].material_id = data.material_id
            THEN [@[i] EXCEPT !.closing_stock = @ - data.seed_quantity_before_drying,
                              !.consumption = @ + data.seed_quantity_before_drying]
            ELSE @[i]]]

\* The bulk-oil rows the oil receipt looks for.
ExtractionOilRows(inv, oil_type) ==
    {i \in Indices(inv) :
        /\ inv[i].material_id = NULL
        /\ inv[i].oil_type = oil_type
        /\ inv[i].is_bulk_oil
        /\ inv[i].source_type = "extraction"}

\* The existing oil lot after an oil receipt.
UpdatedOilLot(row, oil_yield, oil_cost_per_kg) ==
    LET old_stock == row.closing_stock
        old_avg_cost == row.weighted_avg_cost
        new_stock == old_stock + oil_yield
        total_value == (old_stock * old_avg_cost) + (oil_yield * oil_cost_per_kg)
    IN  [row EXCEPT
            !.closing_stock = new_stock,
            !.weighted_avg_cost = IF new_stock > 0 THEN RoundDiv(total_value, new_stock)
                                  ELSE oil_cost_per_kg]

\* The oil lot created by an oil receipt when none exists.
NewOilLot(batch_id, oil_type, oil_yield, oil_cost_per_kg) ==
    [ material_id         |-> NULL,
      oil_type            |-> oil_type,
      source_type         |-> "extraction",
      source_reference_id |-> batch_id,
      is_bulk_oil         |-> TRUE,
      opening_stock       |-> ColumnDefault,
      purchases           |-> ColumnDefault,
      consumption         |-> ColumnDefault,
      closing_stock       |-> oil_yield,
      weighted_avg_cost   |-> oil_cost_per_kg ]

\* 2. Add oil to inventory.
ReceiveOil(t, batch_id, data) ==
    LET S == ExtractionOilRows(t.inventory, data.oil_type)
    IN  IF S # {}
        THEN [t EXCEPT !.inventory[LatestRow(S)] =
                 UpdatedOilLot(@, data.oil_yield, OilCostPerKg(data))]
        ELSE [t EXCEPT !.inventory =
                 Append(@, NewOilLot(batch_id, data.oil_type, data.oil_yield, OilCostPerKg(data)))]

\* 3. Add oil cake to inventory.
InsertCake(t, batch_id, data) ==
    [t EXCEPT !.oil_cake_inventory = Append(@,
        [ batch_id           |-> batch_id,
          oil_type           |-> data.oil_type,
          quantity_produced  |-> data.cake_yield,
          quantity_remaining |-> data.cake_yield,
          estimated_rate     |-> data.cake_estimated_rate,
          production_date    |-> data.production_date ])]

\* Every statement add_batch issues between BEGIN and COMMIT.
BatchStatements(d, data) ==
    LET batch_id == Len(d.batch) + 1
    IN  <<[k |-> "insert_batch", data |-> data]>>
        \o [n \in 1..Len(data.cost_details) |->
               [k |-> "insert_cost_detail", batch_id |-> batch_id,
                cost_item |-> data.cost_details[n]]]
        \o <<[k |-> "update_batch_costs", batch_id |-> batch_id, data |-> data],
             [k |-> "consume_seed", data |-> data],
             [k |-> "receive_oil", batch_id |-> batch_id, data |-> data]>>
        \o (IF data.cake_yield > 0
            THEN <<[k |-> "insert_cake", batch_id |-> batch_id, data |-> data]>> ELSE <<>>)

-----------------------------------------------------------------------------
(* Blending: create_blend *)

\* Percentages are carried in thousandths of a percent.
PctScale == 1000

RECURSIVE TotalPercentage(_)
TotalPercentage(components) ==
    IF components = <<>> THEN 0
    ELSE Head(components).percentage + TotalPercentage(Tail(components))

\* Mutant of BlendRejections: a tolerance of one percent.
BlendRejectionsLoose(data) ==
    IF Len(data.components) < 2 THEN {"too_few_components"}
    ELSE IF Abs(TotalPercentage(data.components) - 100 * PctScale) > PctScale
    THEN {"percentages"}
    ELSE {""}

\* The 400 responses create_blend can return before BEGIN, "" standing for
\* going on.  total_percentage is a sum of floats compared with 0.01: a sum
\* that is off by 0.01 exactly lands on either side of the comparison,
\* depending on the binary representation of the percentages added.
BlendRejections(data) ==
    IF Len(data.components) < 2 THEN {"too_few_components"}
    ELSE IF 100 * Abs(TotalPercentage(data.components) - 100 * PctScale) > PctScale
    THEN {"percentages"}
    ELSE IF 100 * Abs(TotalPercentage(data.components) - 100 * PctScale) = PctScale
    THEN {"percentages", ""}
    ELSE {""}

\* quantity_used of one component.
QuantityUsed(total_quantity, percentage) ==
    RoundDiv(total_quantity * percentage, 100 * PctScale)

RECURSIVE BlendCostNumerator(_, _)
\* Sum of total_quantity * percentage * cost_per_kg over the components.
BlendCostNumerator(total_quantity, components) ==
    IF components = <<>> THEN 0
    ELSE total_quantity * Head(components).percentage * Head(components).cost_per_kg
         + BlendCostNumerator(total_quantity, Tail(components))

\* Mutant of BlendWeightedAvgCost: the plain mean of the components' costs.
BlendMeanCost(data) ==
    IF data.total_quantity > 0
    THEN RoundDiv(BlendCostNumerator(1, [n \in Indices(data.components) |->
                      [data.components[n] EXCEPT !.percentage = 1]]),
                  Len(data.components))
    ELSE 0

BlendWeightedAvgCost(data) ==
    IF data.total_quantity > 0
    THEN RoundDiv(BlendCostNumerator(data.total_quantity, data.components),
                  100 * PctScale * data.total_quantity)
    ELSE 0

BlendOilTypes(components) == {components[n].oil_type : n \in Indices(components)}

InsertBlend(t, data) ==
    [t EXCEPT !.blend_batches = Append(@,
        [ total_quantity    |-> data.total_quantity,
          weighted_avg_cost |-> BlendWeightedAvgCost(data) ])]

InsertBlendComponent(t, blend_id, total_quantity, component) ==
    [t EXCEPT !.blend_batch_components = Append(@,
        [ blend_id        |-> blend_id,
          oil_type        |-> component.oil_type,
          source_type     |-> component.source_type,
          source_batch_id |-> component.batch_id,
          quantity_used   |-> QuantityUsed(total_quantity, component.percentage),
          percentage      |-> component.percentage,
          cost_per_unit   |-> component.cost_per_kg ])]

\* The inventory rows the UPDATE for one component matches.
SourceRows(inv, component, quantity_used) ==
    {i \in Indices(inv) :
        /\ inv[i].closing_stock >= quantity_used
        /\ IF component.source_type = "extraction"
           THEN /\ inv[i].source_reference_id = component.batch_id
                /\ inv[i].source_type = "extraction"
                /\ inv[i].oil_type = component.oil_type
           ELSE IF component.source_type = "blended"
           THEN /\ inv[i].source_reference_id = component.batch_id
                /\ inv[i].source_type = "blended"
           ELSE IF component.source_type = "outsourced"
           THEN i = component.batch_id
           ELSE FALSE}

\* Update source inventory (deduct quantity).
DeductSource(t, total_quantity, component) ==
    LET quantity_used == QuantityUsed(total_quantity, component.percentage)
        S == SourceRows(t.inventory, component, quantity_used)
    IN  [t EXCEPT !.inventory =
            [i \in Indices(@) |->
                IF i \in S
                THEN [@[i] EXCEPT !.closing_stock = @ - quantity_used,
                                  !.consumption = @ + quantity_used]
                ELSE @[i]]]

\* Create inventory record for the new blend.
InsertBlendLot(t, blend_id, data) ==
    [t EXCEPT !.inventory = Append(@,
        [ material_id         |-> NULL,
          oil_type            |-> IF Cardinality(BlendOilTypes(data.components)) = 1
                                  THEN data.components[1].oil_type ELSE "Mixed",
          source_type         |-> "blended",
          source_reference_id |-> blend_id,
          is_bulk_oil         |-> TRUE,
          opening_stock       |-> data.total_quantity,
          purchases           |-> ColumnDefault,
          consumption         |-> ColumnDefault,
          closing_stock       |-> data.total_quantity,
          weighted_avg_cost   |-> BlendWeightedAvgCost(data) ])]

RECURSIVE BlendComponentStatements(_, _, _)
BlendComponentStatements(blend_id, total_quantity, components) ==
    IF components = <<>> THEN <<>>
    ELSE <<[k |-> "insert_blend_component", blend_id |-> blend_id,
            total_quantity |-> total_quantity, component |-> Head(components)],
           [k |-> "deduct_source", total_quantity |-> total_quantity,
            component |-> Head(components)]>>
         \o BlendComponentStatements(blend_id, total_quantity, Tail(components))

\* Every statement create_blend issues between BEGIN and COMMIT.
BlendStatements(d, data) ==
    LET blend_id == Len(d.blend_batches) + 1
    IN  <<[k |-> "insert_blend", data |-> data]>>
        \o BlendComponentStatements(blend_id, data.total_quantity, data.components)
        \o <<[k |-> "insert_blend_lot", blend_id |-> blend_id, data |-> data]>>

-----------------------------------------------------------------------------
(* Write-offs: add_writeoff *)

\* The response add_writeoff returns before BEGIN, or "" when it goes on.
WriteoffRejection(d, data) ==
    IF MaterialRows(d.inventory, data.material_id) = {} THEN "not_found"
    ELSE IF data.quantity <= 0 THEN "not_positive"
    ELSE IF data.quantity > d.inventory[LatestRow(MaterialRows(d.inventory, data.material_id))].closing_stock
    THEN "insufficient_stock"
    ELSE ""

InsertWriteoff(t, data, weighted_avg_cost) ==
    [t EXCEPT !.material_writeoffs = Append(@,
        [ material_id       |-> data.material_id,
          quantity          |-> data.quantity,
          weighted_avg_cost |-> weighted_avg_cost,
          total_cost        |-> data.quantity * weighted_avg_cost,
          scrap_value       |-> data.scrap_value,
          net_loss          |-> data.quantity * weighted_avg_cost - data.scrap_value ])]

\* Mutant of WriteoffInventory: a lot written off to nothing loses its cost.
WriteoffInventoryResetCost(t, data, current_stock) ==
    IF MaterialRows(t.inventory, data.material_id) = {} THEN t
    ELSE [t EXCEPT !.inventory[LatestRow(MaterialRows(t.inventory, data.material_id))] =
             [@ EXCEPT !.closing_stock = current_stock - data.quantity,
                       !.consumption = @ + data.quantity,
                       !.weighted_avg_cost = IF current_stock = data.quantity THEN 0 ELSE @]]

WriteoffInventory(t, data, current_stock) ==
    IF MaterialRows(t.inventory, data.material_id) = {} THEN t
    ELSE [t EXCEPT !.inventory[LatestRow(MaterialRows(t.inventory, data.material_id))] =
             [@ EXCEPT !.closing_stock = current_stock - data.quantity,
                       !.consumption = @ + data.quantity]]

\* Every statement add_writeoff issues between BEGIN and COMMIT.
WriteoffStatements(d, data) ==
    LET row == d.inventory[LatestRow(MaterialRows(d.inventory, data.material_id))]
    IN  <<[k |-> "insert_writeoff", data |-> data, weighted_avg_cost |-> row.weighted_avg_cost],
          [k |-> "writeoff_inventory", data |-> data, current_stock |-> row.closing_stock]>>

\* The write-off handler of purchase_endpoints.py.  It checks the quantity
\* against the stock only, and records the new balance as a new inventory row.
LegacyWriteoffRejection(d, data) ==
    IF MaterialRows(d.inventory, data.material_id) = {} THEN "not_found"
    ELSE IF data.quantity > d.inventory[LatestRow(MaterialRows(d.inventory, data.material_id))].closing_stock
    THEN "insufficient_stock"
    ELSE ""

\* Update inventory - create new record with reduced quantity.
LegacyWriteoffInventory(t, data, current_stock, weighted_avg_cost) ==
    [t EXCEPT !.inventory = Append(@,
        [ material_id         |-> data.material_id,
          oil_type            |-> NullText,
          source_type         |-> "",
          source_reference_id |-> NULL,
          is_bulk_oil         |-> FALSE,
          opening_stock       |-> current_stock,
          purchases           |-> 0,
          consumption         |-> data.quantity,
          closing_stock       |-> current_stock - data.quantity,
          weighted_avg_cost   |-> weighted_avg_cost ])]

LegacyWriteoffStatements(d, data) ==
    LET row == d.inventory[LatestRow(MaterialRows(d.inventory, data.material_id))]
    IN  <<[k |-> "insert_writeoff", data |-> data, weighted_avg_cost |-> row.weighted_avg_cost],
          [k |-> "legacy_writeoff_inventory", data |-> data, current_stock |-> row.closing_stock,
           weighted_avg_cost |-> row.weighted_avg_cost]>>

-----------------------------------------------------------------------------
(* Cost management: time tracking and extended costs of a batch *)

\* A datetime string that strptime rejects.
Malformed == 0 - 2000000

\* The rows of cost_elements_master the handlers read: one element charged
\* per hour on a batch, one charged per kg, one charged per hour elsewhere.
CostElementsMaster ==
    << [element_id |-> 1, element_name |-> "Electricity - Crushing", default_rate |-> 15,
        calculation_method |-> "per_hour", applicable_to |-> "batch", active |-> TRUE],
       [element_id |-> 2, element_name |-> "Drying Labour", default_rate |-> 9,
        calculation_method |-> "per_kg", applicable_to |-> "batch", active |-> TRUE],
       [element_id |-> 3, element_name |-> "Loading Labour", default_rate |-> 12,
        calculation_method |-> "per_hour", applicable_to |-> "sales", active |-> TRUE] >>

RECURSIVE TimeCosts(_, _)
TimeCosts(elements, hours) ==
    IF elements = <<>> THEN <<>>
    ELSE LET e == Head(elements)
         IN  IF e.calculation_method = "per_hour" /\ e.applicable_to \in {"batch", "all"} /\ e.active
             THEN <<[element_id |-> e.element_id, element_name |-> e.element_name,
                     rate |-> e.default_rate, hours |-> hours,
                     total_cost |-> e.default_rate * hours]>> \o TimeCosts(Tail(elements), hours)
             ELSE TimeCosts(Tail(elements), hours)

calculate_time_based_costs(hours) == TimeCosts(CostElementsMaster, hours)

\* Minutes between the two datetimes, billed in whole hours, rounded up.
RoundedHours(data) == (data.end_datetime - data.start_datetime + 59) \div 60

TimeTrackingRejection(data) ==
    IF data.batch_id = NULL \/ data.start_datetime = NULL \/ data.end_datetime = NULL
    THEN "required"
    ELSE IF Malformed \in {data.start_datetime, data.end_datetime}
    THEN "ValueError"
    ELSE IF data.end_datetime <= data.start_datetime
    THEN "end_before_start"
    ELSE ""

InsertTimeTracking(t, data) ==
    [t EXCEPT !.batch_time_tracking = Append(@,
        [ tracking_id    |-> Len(@) + 1,
          batch_id       |-> data.batch_id,
          start_datetime |-> data.start_datetime,
          end_datetime   |-> data.end_datetime,
          rounded_hours  |-> RoundedHours(data) ])]

\* The rows of batch_extended_costs of one element of one batch.
ExtendedCostRows(table, batch_id, element_id) ==
    {i \in Indices(table) : table[i].batch_id = batch_id /\ table[i].element_id = element_id}

InsertExtendedCost(t, batch_id, element_id, quantity, rate, total_cost, is_applied) ==
    [t EXCEPT !.batch_extended_costs = Append(@,
        [ cost_id           |-> Len(@) + 1,
          batch_id          |-> batch_id,
          element_id        |-> element_id,
          quantity_or_hours |-> quantity,
          rate_used         |-> rate,
          total_cost        |-> total_cost,
          is_applied        |-> is_applied ])]

\* fetchone() on a SELECT without ORDER BY: one of the rows S, which one is
\* for the database to choose; pick stands for its choice.
FetchOne(S, pick) ==
    CHOOSE i \in S : Cardinality({j \in S : j <= i}) = ((pick - 1) % Cardinality(S)) + 1

\* Every statement save_time_tracking issues between BEGIN and COMMIT.
TimeTrackingStatements(data) ==
    LET time_costs == calculate_time_based_costs(RoundedHours(data))
    IN  <<[k |-> "insert_time_tracking", data |-> data]>>
        \o [n \in Indices(time_costs) |->
               [k |-> "insert_extended_cost", batch_id |-> data.batch_id,
                element_id |-> time_costs[n].element_id, quantity |-> RoundedHours(data),
                rate |-> time_costs[n].rate, total_cost |-> time_costs[n].total_cost,
                is_applied |-> TRUE]]

ActualRate(cost_item) ==
    IF cost_item.override_rate # NULL THEN cost_item.override_rate ELSE cost_item.rate

LogOverride(t, batch_id, cost_item) ==
    [t EXCEPT !.cost_override_log = Append(@,
        [ module_name   |-> "batch",
          record_id     |-> batch_id,
          element_id    |-> cost_item.element_id,
          original_rate |-> cost_item.rate,
          override_rate |-> ActualRate(cost_item) ])]

\* SELECT cost_id ... fetchone(), then UPDATE of that row or INSERT.
SaveExtendedCost(t, batch_id, cost_item, pick) ==
    LET existing == ExtendedCostRows(t.batch_extended_costs, batch_id, cost_item.element_id)
    IN  IF existing # {}
        THEN [t EXCEPT !.batch_extended_costs[FetchOne(existing, pick)] =
                 [@ EXCEPT !.quantity_or_hours = cost_item.quantity,
                           !.rate_used = ActualRate(cost_item),
                           !.total_cost = cost_item.quantity * ActualRate(cost_item),
                           !.is_applied = cost_item.is_applied]]
        ELSE InsertExtendedCost(t, batch_id, cost_item.element_id, cost_item.quantity,
                                ActualRate(cost_item), cost_item.quantity * ActualRate(cost_item),
                                cost_item.is_applied)

RECURSIVE BatchCostStatements(_, _, _)
\* Every statement save_batch_costs issues between BEGIN and COMMIT.
BatchCostStatements(batch_id, costs, pick) ==
    IF costs = <<>> THEN <<>>
    ELSE (IF Head(costs).override_rate # NULL
          THEN <<[k |-> "log_override", batch_id |-> batch_id, cost_item |-> Head(costs)]>>
          ELSE <<>>)
         \o <<[k |-> "save_extended_cost", batch_id |-> batch_id, cost_item |-> Head(costs),
               pick |-> pick]>>
         \o BatchCostStatements(batch_id, Tail(costs), pick)

\* What calculate_batch_costs reads back for an element of a batch.
ExistingCost(table, batch_id, element_id, pick) ==
    IF ExtendedCostRows(table, batch_id, element_id) = {} THEN NULL
    ELSE table[FetchOne(ExtendedCostRows(table, batch_id, element_id), pick)].total_cost

-----------------------------------------------------------------------------
(* Transactions *)

\* The effect of one statement on the working copy t of the tables.
Apply(t, s) ==
    CASE s.k = "insert_sale"            -> InsertSale(t, s.data, s.oil_type)
      [] s.k = "insert_allocation"      -> InsertAllocation(t, s.sale_id, s.batch, s.qty, s.rate)
      [] s.k = "update_cake_remaining"  -> UpdateCakeRemaining(t, s.batch.inventory_id, s.qty)
      [] s.k = "update_batch_sold"      -> UpdateBatchSold(t, s.type, s.batch.batch_id, s.qty, s.rate)
      [] s.k = "adjust_batch_oil_cost"  -> AdjustBatchOilCost(t, s.type, s.batch.batch_id, s.qty, s.rate)
      [] s.k = "insert_purchase"        -> InsertPurchase(t, s.data)
      [] s.k = "insert_purchase_item"   -> InsertPurchaseItem(t, s.purchase_id, s.item)
      [] s.k = "receive_purchase_item"  -> ReceivePurchaseItem(t, s.item)
      [] s.k = "update_material_cost"   -> UpdateMaterialCost(t, s.material_id)
      [] s.k = "insert_legacy_purchase"      -> InsertLegacyPurchase(t, s.data)
      [] s.k = "legacy_writeoff_inventory"
           -> LegacyWriteoffInventory(t, s.data, s.current_stock, s.weighted_avg_cost)
      [] s.k = "receive_legacy_purchase"     -> ReceiveLegacyPurchase(t, s.data)
      [] s.k = "update_legacy_material_cost" -> LegacyUpdateMaterialCost(t, s.data)
      [] s.k = "insert_batch"           -> InsertBatch(t, s.data)
      [] s.k = "insert_cost_detail"     -> InsertCostDetail(t, s.batch_id, s.cost_item)
      [] s.k = "update_batch_costs"     -> UpdateBatchCosts(t, s.batch_id, s.data)
      [] s.k = "consume_seed"           -> ConsumeSeed(t, s.data)
      [] s.k = "receive_oil"            -> ReceiveOil(t, s.batch_id, s.data)
      [] s.k = "insert_cake"            -> InsertCake(t, s.batch_id, s.data)
      [] s.k = "insert_blend"           -> InsertBlend(t, s.data)
      [] s.k = "insert_blend_component" -> InsertBlendComponent(t, s.blend_id, s.total_quantity, s.component)
      [] s.k = "deduct_source"          -> DeductSource(t, s.total_quantity, s.component)
      [] s.k = "insert_blend_lot"       -> InsertBlendLot(t, s.blend_id, s.data)
      [] s.k = "insert_writeoff"        -> InsertWriteoff(t, s.data, s.weighted_avg_cost)
      [] s.k = "writeoff_inventory"     -> WriteoffInventory(t, s.data, s.current_stock)
      [] s.k = "insert_time_tracking"   -> InsertTimeTracking(t, s.data)
      [] s.k = "insert_extended_cost"
           -> InsertExtendedCost(t, s.batch_id, s.element_id, s.quantity, s.rate, s.total_cost, s.is_applied)
      [] s.k = "log_override"           -> LogOverride(t, s.batch_id, s.cost_item)
      [] s.k = "save_extended_cost"     -> SaveExtendedCost(t, s.batch_id, s.cost_item, s.pick)

RECURSIVE Run(_, _, _)
\* The working copy after the first n statements of stmts.
Run(t, stmts, n) ==
    IF n = 0 \/ stmts = <<>> THEN t
    ELSE Run(Apply(t, Head(stmts)), Tail(stmts), n - 1)

-----------------------------------------------------------------------------
(* Handlers.  data is the request body; failAt = 0 is a run in which no    *)
(* statement raises, failAt = k > 0 one in which the k-th statement        *)
(* raises after the k - 1 before it have been executed.                    *)

Response(op, status, error, data, done) ==
    [op |-> op, status |-> status, error |-> error, data |-> data, done |-> done]

\* except Exception: conn.rollback() in add_purchase.
PurchaseOnError(d, t) == d

\* The items of a request that lack a key the first pass reads with item[...].
ItemsMissingKeys(data) ==
    {n \in Indices(data.items) : ~({"quantity", "rate", "gst_rate"} \subseteq DOMAIN data.items[n])}

AddPurchase(data, failAt) ==
    /\ UNCHANGED <<calls, applied, txn>>
    /\ IF data.items = <<>>
       THEN /\ db' = db
            /\ last' = Response("add_purchase", 400, "no_items", data, 0)
       ELSE IF ItemsMissingKeys(data) # {}
       THEN /\ failAt = 0
            /\ db' = PurchaseOnError(db, db)
            /\ last' = Response("add_purchase", 500, "KeyError", data, 0)
       ELSE LET stmts == PurchaseStatements(db, data)
            IN  /\ failAt <= Len(stmts)
                /\ IF failAt = 0
                   THEN /\ db' = Run(db, stmts, Len(stmts))
                        /\ last' = Response("add_purchase", 201, "", data, Len(stmts))
                   ELSE /\ db' = PurchaseOnError(db, Run(db, stmts, failAt - 1))
                        /\ last' = Response("add_purchase", 500, "exception", NoData, failAt - 1)

\* The committed state when the single-item handler raises after done
\* statements: conn.rollback() undoes what came after the last conn.commit().
LegacyPurchaseOnError(d, stmts, done) == IF done >= 2 THEN Run(d, stmts, 2) ELSE d

LegacyAddPurchase(data, failAt) ==
    /\ UNCHANGED <<calls, applied, txn>>
    /\ LET stmts == LegacyPurchaseStatements(data)
       IN  /\ failAt <= Len(stmts)
           /\ IF failAt = 0
              THEN /\ db' = Run(db, stmts, Len(stmts))
                   /\ last' = Response("add_purchase", 200, "", data, Len(stmts))
              ELSE /\ db' = LegacyPurchaseOnError(db, stmts, failAt - 1)
                   /\ last' = Response("add_purchase", 400, "exception", NoData, failAt - 1)

\* Mutant of BatchOnError: the statements executed before the failure stay.
BatchOnErrorKeep(d, t) == t

\* except Exception: conn.rollback() in add_batch.
BatchOnError(d, t) == d

AddBatch(data, failAt) ==
    /\ UNCHANGED <<calls, applied, txn>>
    /\ IF BatchRejection(db, data) # ""
       THEN /\ db' = db
            /\ last' = Response("add_batch", 400, BatchRejection(db, data), data, 0)
       ELSE LET stmts == BatchStatements(db, data)
            IN  /\ failAt <= Len(stmts)
                /\ IF failAt = 0
                   THEN /\ db' = Run(db, stmts, Len(stmts))
                        /\ last' = Response("add_batch", 201, "", data, Len(stmts))
                   ELSE /\ db' = BatchOnError(db, Run(db, stmts, failAt - 1))
                        /\ last' = Response("add_batch", 500, "exception", NoData, failAt - 1)

\* Mutant of SaleOnError: the statements executed before the failure stay.
SaleOnErrorKeep(d, t) == t

\* except Exception: conn.rollback() in add_material_sale.
SaleOnError(d, t) == d

AddMaterialSale(data, failAt) ==
    /\ UNCHANGED <<calls, applied, txn>>
    /\ IF data.quantity_sold <= 0
       THEN /\ db' = db
            /\ last' = Response("add_material_sale", 400, "not_positive", data, 0)
       ELSE \E available_batches \in AvailableBatches(db, data.byproduct_type, data.oil_type) :
            IF InsufficientInventory(TotalAvailable(available_batches), data.quantity_sold)
            THEN /\ db' = db
                 /\ last' = Response("add_material_sale", 400, "insufficient_inventory", data, 0)
            ELSE LET stmts == SaleStatements(db, data, available_batches)
                 IN  /\ failAt <= Len(stmts)
                     /\ IF failAt = 0
                        THEN /\ db' = Run(db, stmts, Len(stmts))
                             /\ last' = Response("add_material_sale", 201, "", data, Len(stmts))
                        ELSE /\ db' = SaleOnError(db, Run(db, stmts, failAt - 1))
                             /\ last' = Response("add_material_sale", 500, "exception", NoData,
                                                 failAt - 1)

\* except Exception: conn.rollback() in create_blend.
BlendOnError(d, t) == d

CreateBlend(data, failAt) ==
    /\ UNCHANGED <<calls, applied, txn>>
    /\ \E rejection \in BlendRejections(data) :
       IF rejection # ""
       THEN /\ db' = db
            /\ last' = Response("create_blend", 400, rejection, data, 0)
       ELSE LET stmts == BlendStatements(db, data)
            IN  /\ failAt <= Len(stmts)
                /\ IF failAt = 0
                   THEN /\ db' = Run(db, stmts, Len(stmts))
                        /\ last' = Response("create_blend", 201, "", data, Len(stmts))
                   ELSE /\ db' = BlendOnError(db, Run(db, stmts, failAt - 1))
                        /\ last' = Response("create_blend", 500, "exception", NoData, failAt - 1)

\* except Exception: conn.rollback() in add_writeoff.
WriteoffOnError(d, t) == d

AddWriteoff(data, failAt) ==
    /\ UNCHANGED <<calls, applied, txn>>
    /\ IF WriteoffRejection(db, data) # ""
       THEN /\ db' = db
            /\ last' = Response("add_writeoff",
                                IF WriteoffRejection(db, data) = "not_found" THEN 404 ELSE 400,
                                WriteoffRejection(db, data), data, 0)
       ELSE LET stmts == WriteoffStatements(db, data)
            IN  /\ failAt <= Len(stmts)
                /\ IF failAt = 0
                   THEN /\ db' = Run(db, stmts, Len(stmts))
                        /\ last' = Response("add_writeoff", 201, "", data, Len(stmts))
                   ELSE /\ db' = WriteoffOnError(db, Run(db, stmts, failAt - 1))
                        /\ last' = Response("add_writeoff", 500, "exception", NoData, failAt - 1)

\* except Exception: conn.rollback() in the write-off handler of purchase_endpoints.py.
LegacyWriteoffOnError(d, t) == d

LegacyAddWriteoff(data, failAt) ==
    /\ UNCHANGED <<calls, applied, txn>>
    /\ IF LegacyWriteoffRejection(db, data) # ""
       THEN /\ db' = db
            /\ last' = Response("add_writeoff",
                                IF LegacyWriteoffRejection(db, data) = "not_found" THEN 404 ELSE 400,
                                LegacyWriteoffRejection(db, data), data, 0)
       ELSE LET stmts == LegacyWriteoffStatements(db, data)
            IN  /\ failAt <= Len(stmts)
                /\ IF failAt = 0
                   THEN /\ db' = Run(db, stmts, Len(stmts))
                        /\ last' = Response("add_writeoff", 201, "", data, Len(stmts))
                   ELSE /\ db' = LegacyWriteoffOnError(db, Run(db, stmts, failAt - 1))
                        /\ last' = Response("add_writeoff", 500, "exception", NoData, failAt - 1)

\* except Exception: conn.rollback() in save_time_tracking.
TimeTrackingOnError(d, t) == d

SaveTimeTracking(data, failAt) ==
    /\ UNCHANGED <<calls, applied, txn>>
    /\ IF TimeTrackingRejection(data) = "ValueError"
       THEN /\ failAt = 0
            /\ db' = TimeTrackingOnError(db, db)
            /\ last' = Response("save_time_tracking", 500, "ValueError", NoData, 0)
       ELSE IF TimeTrackingRejection(data) # ""
       THEN /\ failAt = 0
            /\ db' = db
            /\ last' = Response("save_time_tracking", 400, TimeTrackingRejection(data), data, 0)
       ELSE LET stmts == TimeTrackingStatements(data)
            IN  /\ failAt <= Len(stmts)
                /\ IF failAt = 0
                   THEN /\ db' = Run(db, stmts, Len(stmts))
                        /\ last' = Response("save_time_tracking", 200, "", data, Len(stmts))
                   ELSE /\ db' = TimeTrackingOnError(db, Run(db, stmts, failAt - 1))
                        /\ last' = Response("save_time_tracking", 500, "exception", NoData, failAt - 1)

\* except Exception: conn.rollback() in save_batch_costs.
BatchCostsOnError(d, t) == d

SaveBatchCosts(data, pick, failAt) ==
    /\ UNCHANGED <<calls, applied, txn>>
    /\ IF data.batch_id = NULL
       THEN /\ failAt = 0
            /\ db' = db
            /\ last' = Response("save_batch_costs", 400, "required", data, 0)
       ELSE LET stmts == BatchCostStatements(data.batch_id, data.costs, pick)
            IN  /\ failAt <= Len(stmts)
                /\ IF failAt = 0
                   THEN /\ db' = Run(db, stmts, Len(stmts))
                        /\ last' = Response("save_batch_costs", 200, "", data, Len(stmts))
                   ELSE /\ db' = BatchCostsOnError(db, Run(db, stmts, failAt - 1))
                        /\ last' = Response("save_batch_costs", 500, "exception", NoData, failAt - 1)

\* The largest number of statements any handler issues in this model.
MaxStatements == 12

NoFailure == {0}
AnyFailure == 0..MaxStatements

-----------------------------------------------------------------------------
(* Requests *)

LegacyPurchaseRequest(material_id, quantity, cost_per_unit, gst_rate, transport_cost, loading_charges) ==
    [ material_id |-> material_id, quantity |-> quantity, cost_per_unit |-> cost_per_unit,
      gst_rate |-> gst_rate, transport_cost |-> transport_cost, loading_charges |-> loading_charges ]

PurchaseItem(material_id, quantity, rate, gst_rate, transport_charges, handling_charges) ==
    [ material_id |-> material_id, quantity |-> quantity, rate |-> rate, gst_rate |-> gst_rate,
      transport_charges |-> transport_charges, handling_charges |-> handling_charges ]

PurchaseRequest(items, transport_cost, handling_charges) ==
    [ items |-> items, transport_cost |-> transport_cost, handling_charges |-> handling_charges ]

BatchRequest(oil_type, production_date, seed_before, seed_after, oil_yield, cake_yield, sludge_yield, seed_cost_total, cost_details, cake_rate, sludge_rate) ==
    [ material_id                 |-> 1,
      seed_purchase_code          |-> 1,
      oil_type                    |-> oil_type,
      production_date             |-> production_date,
      seed_quantity_before_drying |-> seed_before,
      seed_quantity_after_drying  |-> seed_after,
      oil_yield                   |-> oil_yield,
      cake_yield                  |-> cake_yield,
      sludge_yield                |-> sludge_yield,
      seed_cost_total             |-> seed_cost_total,
      cost_details                |-> cost_details,
      cake_estimated_rate         |-> cake_rate,
      sludge_estimated_rate       |-> sludge_rate ]

SaleRequest(byproduct_type, oil_type, quantity_sold, sale_rate) ==
    [ byproduct_type |-> byproduct_type, oil_type |-> oil_type,
      quantity_sold |-> quantity_sold, sale_rate |-> sale_rate ]

CostItem(master_rate, override_rate, quantity, total_cost) ==
    [ master_rate |-> master_rate, override_rate |-> override_rate,
      quantity |-> quantity, total_cost |-> total_cost ]

\* One purchase of seed, large enough for every batch of a run.
SeedPurchase == PurchaseRequest(<<PurchaseItem(1, 12, 50, 0, 0, 0)>>, 0, 0)

-----------------------------------------------------------------------------
(* FIFO runs: batches of two oil types on three production days, cake     *)
(* sales with and without an oil-type filter.                              *)

FifoBatches ==
    {BatchRequest("A", day, 2, 2, 3, 5, 0, 100, <<>>, 10, 0) : day \in {10, 15}}
    \cup {BatchRequest("B", 12, 2, 2, 3, 5, 5, 100, <<>>, 10, 4)}

FifoSales ==
    {SaleRequest("oil_cake", NullText, q, 12) : q \in {3, 8, 20}}
    \cup {SaleRequest("oil_cake", "A", 8, 12)}
    \cup {SaleRequest("sludge", NullText, q, 12) : q \in {0, 3}}

Init ==
    /\ db = EmptyDb
    /\ last = NoRequest
    /\ calls = <<>>
    /\ applied = {}
    /\ txn = NoTransactions

NextFifo ==
    \/ db.purchases = <<>> /\ AddPurchase(SeedPurchase, 0)
    \/ Len(db.batch) < MaxFifoBatches /\ \E data \in FifoBatches : AddBatch(data, 0)
    \/ Len(db.oil_cake_sales) < MaxFifoSales /\ \E data \in FifoSales : AddMaterialSale(data, 0)

SpecFifo == Init /\ [][NextFifo]_vars

-----------------------------------------------------------------------------
(* Cost-adjustment runs: batches of one oil type with cake and sludge,     *)
(* sales below, at and above the estimated rate, any statement of a sale   *)
(* may raise.                                                              *)

CostBatches ==
    {BatchRequest("A", 10, 2, 2, 3, 2, sludge_yield, 20, <<CostItem(2, NULL, 2, 4)>>, 2, 2) :
        sludge_yield \in {0, 2}}

CostSales ==
    {SaleRequest(type, NullText, q, rate) :
        type \in {"oil_cake", "sludge"}, q \in {1}, rate \in 1..3}

NextCost ==
    \/ db.purchases = <<>> /\ AddPurchase(SeedPurchase, 0)
    \/ Len(db.batch) < MaxCostBatches /\ \E data \in CostBatches : AddBatch(data, 0)
    \/ Len(db.oil_cake_sales) < MaxCostSales
         /\ \E data \in CostSales, failAt \in AnyFailure : AddMaterialSale(data, failAt)

SpecCost == Init /\ [][NextCost]_vars

-----------------------------------------------------------------------------
(* Properties of by-product sales *)

SaleDone == last.op = "add_material_sale" /\ last.status = 201

\* Allocation rows of sale sale_id, in the order they were inserted.
AllocationsOf(d, sale_id) ==
    {n \in Indices(d.oil_cake_sale_allocations) :
        d.oil_cake_sale_allocations[n].sale_id = sale_id}

\* Allocation rows that drew by-product of the given type from batch_id.
AllocationsFrom(d, byproduct_type, batch_id) ==
    {n \in Indices(d.oil_cake_sale_allocations) :
        /\ d.oil_cake_sale_allocations[n].batch_id = batch_id
        /\ d.oil_cake_sale_allocations[n].sale_id \in Indices(d.oil_cake_sales)
        /\ d.oil_cake_sales[d.oil_cake_sale_allocations[n].sale_id].grade = byproduct_type}

AllocatedQty(d, S) ==
    SumOver([n \in S |-> d.oil_cake_sale_allocations[n].quantity_allocated], S)

\* The lot of the given type that belongs to batch_id, as a sale sees it.
LotsOfBatch(d, byproduct_type, batch_id) ==
    IF byproduct_type = "oil_cake"
    THEN {CakeEntry(d, i) : i \in {j \in Indices(d.oil_cake_inventory) :
                                      d.oil_cake_inventory[j].batch_id = batch_id}}
    ELSE {SludgeEntry(d, batch_id)}

\* Lots of the requested type that match the request's oil-type filter.
MatchingLots(d, data) ==
    IF data.byproduct_type = "oil_cake"
    THEN {CakeEntry(d, i) : i \in CakeLotsForSale(d, data.oil_type)}
    ELSE {SludgeEntry(d, i) : i \in SludgeLotsForSale(d, data.oil_type)}

RemainingOf(d, byproduct_type, inventory_id) ==
    IF byproduct_type = "oil_cake"
    THEN d.oil_cake_inventory[inventory_id].quantity_remaining
    ELSE SludgeRemaining(d.batch[inventory_id])

\* C1: a successful sale visits the matching lots oldest production date
\* first, takes min(remaining_to_sell, lot.quantity_remaining) from each lot it
\* visits, takes from a later lot only once every older matching lot is
\* empty, and its allocations sum to quantity_sold.
FifoStep ==
    (last'.op = "add_material_sale" /\ last'.status = 201) =>
        LET data == last'.data
            type == data.byproduct_type
            old  == Len(db.oil_cake_sale_allocations)
            new  == Len(db'.oil_cake_sale_allocations) - old
            row(n) == db'.oil_cake_sale_allocations[old + n]
            lot(n) == CHOOSE l \in LotsOfBatch(db, type, row(n).batch_id) : TRUE
            before(n) == SumOver([m \in 1..(n - 1) |-> row(m).quantity_allocated], 1..(n - 1))
            taken(l) == RemainingOf(db, type, l.inventory_id)
                        - RemainingOf(db', type, l.inventory_id)
        IN  /\ new >= 1
            /\ \A n \in 1..new :
                 /\ lot(n) \in MatchingLots(db, data)
                 /\ row(n).quantity_allocated
                      = Min(data.quantity_sold - before(n), lot(n).quantity_remaining)
                 /\ row(n).quantity_allocated > 0
                 /\ taken(lot(n)) = row(n).quantity_allocated
            /\ \A n, m \in 1..new : n < m => lot(n).production_date <= lot(m).production_date
            /\ \A n, m \in 1..new : n # m => row(n).batch_id # row(m).batch_id
            /\ before(new + 1) = data.quantity_sold
            /\ \A older, later \in MatchingLots(db, data) :
                 (older.production_date < later.production_date /\ taken(later) > 0)
                     => RemainingOf(db', type, older.inventory_id) = 0

FifoOldestFirst == [][FifoStep]_vars

\* Lots of days 10, 12 and 15 holding 5 each, 8 sold: 0, 2 and 5 remain.
FifoExampleReached ==
    /\ SaleDone
    /\ last.data.byproduct_type = "oil_cake"
    /\ last.data.quantity_sold = 8
    /\ Len(db.oil_cake_sale_allocations) = 2
    /\ \E i, j, k \in Indices(db.oil_cake_inventory) :
         /\ db.oil_cake_inventory[i].production_date = 10
         /\ db.oil_cake_inventory[j].production_date = 12
         /\ db.oil_cake_inventory[k].production_date = 15
         /\ db.oil_cake_inventory[i].quantity_remaining = 0
         /\ db.oil_cake_inventory[j].quantity_remaining = 2
         /\ db.oil_cake_inventory[k].quantity_remaining = 5
         /\ k < i

\* Total quantity_remaining of the lots that match a request.
TotalMatching(d, data) ==
    LET S == MatchingLots(d, data)
    IN  SumOver([l \in S |-> l.quantity_remaining], S)

\* C4: a sale of more than the matching lots hold is answered 400
\* (insufficient inventory) and leaves every table as it was.
InsufficientStep ==
    (/\ last'.op = "add_material_sale"
     /\ last'.status # 500
     /\ last'.data.quantity_sold > 0
     /\ TotalMatching(db, last'.data) < last'.data.quantity_sold)
        => (/\ last'.status = 400
            /\ last'.error = "insufficient_inventory"
            /\ db' = db)

InsufficientRejected == [][InsufficientStep]_vars

\* 20 asked of lots that hold 15 together.
InsufficientExampleReached ==
    /\ last.op = "add_material_sale"
    /\ last.status = 400
    /\ last.error = "insufficient_inventory"
    /\ last.data.quantity_sold = 20
    /\ TotalMatching(db, last.data) = 15

\* net_oil_cost of a batch as add_batch recorded it.
OriginalNetOilCost(b) ==
    b.total_production_cost - (b.oil_cake_yield * b.cake_estimated_rate)
        - (b.sludge_yield * b.sludge_estimated_rate)

AllocationsOfBatch(d, batch_id) ==
    {n \in Indices(d.oil_cake_sale_allocations) :
        d.oil_cake_sale_allocations[n].batch_id = batch_id}

\* C2: every batch's net_oil_cost is its original net_oil_cost plus the
\* adjustments quantity_allocated * (original_estimate_rate - actual_sale_rate)
\* of all the allocations ever made to it.
NetCostAccumulates ==
    \A b \in Indices(db.batch) :
        LET S == AllocationsOfBatch(db, b)
            adj == [n \in S |->
                       db.oil_cake_sale_allocations[n].quantity_allocated
                       * (db.oil_cake_sale_allocations[n].original_estimate_rate
                          - db.oil_cake_sale_allocations[n].actual_sale_rate)]
        IN  db.batch[b].net_oil_cost = OriginalNetOilCost(db.batch[b]) + SumOver(adj, S)

\* C3: for every allocation of a successful sale, net_oil_cost of the batch
\* falls when the sale rate is above the estimated rate, rises when it is
\* below, and stays when the two are equal.
SaleSignStep ==
    (last'.op = "add_material_sale" /\ last'.status = 201) =>
        \A n \in (Len(db.oil_cake_sale_allocations) + 1)..Len(db'.oil_cake_sale_allocations) :
            LET a == db'.oil_cake_sale_allocations[n]
                was == db.batch[a.batch_id].net_oil_cost
                now == db'.batch[a.batch_id].net_oil_cost
            IN  /\ a.actual_sale_rate > a.original_estimate_rate => now < was
                /\ a.actual_sale_rate < a.original_estimate_rate => now > was
                /\ a.actual_sale_rate = a.original_estimate_rate => now = was

SaleSign == [][SaleSignStep]_vars

\* Everything one committed sale writes is there, and nothing else is.
SaleComplete(d) ==
    /\ \A n \in Indices(d.oil_cake_sale_allocations) :
         d.oil_cake_sale_allocations[n].sale_id \in Indices(d.oil_cake_sales)
    /\ \A sale_id \in Indices(d.oil_cake_sales) :
         AllocatedQty(d, AllocationsOf(d, sale_id)) = d.oil_cake_sales[sale_id].quantity_sold
    /\ \A i \in Indices(d.oil_cake_inventory) :
         d.oil_cake_inventory[i].quantity_remaining
            = d.oil_cake_inventory[i].quantity_produced
              - AllocatedQty(d, AllocationsFrom(d, "oil_cake", d.oil_cake_inventory[i].batch_id))
    /\ \A b \in Indices(d.batch) :
         /\ Coalesce(d.batch[b].cake_sold_quantity, 0)
               = AllocatedQty(d, AllocationsFrom(d, "oil_cake", b))
         /\ Coalesce(d.batch[b].sludge_sold_quantity, 0)
               = AllocatedQty(d, AllocationsFrom(d, "sludge", b))
         /\ LET S == AllocationsOfBatch(d, b)
                net == IF S = {} THEN OriginalNetOilCost(d.batch[b])
                       ELSE OriginalNetOilCost(d.batch[b])
                            + d.oil_cake_sale_allocations[LatestRow(S)].oil_cost_adjustment
            IN  /\ d.batch[b].net_oil_cost = net
                /\ d.batch[b].oil_cost_per_kg = RoundDiv(net, d.batch[b].oil_yield)

\* C9: in every committed state each sale is there whole (its row, its
\* allocation rows, the lot decrements and the batch cost updates), and a
\* sale that fails leaves every table, the batch costs among them, as it was.
SaleAtomicStep ==
    /\ SaleComplete(db')
    /\ (last'.op = "add_material_sale" /\ last'.status = 500) => db' = db

Stage(quantity_produced, quantity_remaining) ==
    IF quantity_remaining = quantity_produced THEN 0      \* Produced
    ELSE IF quantity_remaining > 0 THEN 1                 \* PartiallySold
    ELSE 2                                                \* FullySold

\* C10: every by-product lot starts with quantity_remaining =
\* quantity_produced, keeps 0 <= quantity_remaining <= quantity_produced,
\* never gains quantity, and never moves back from FullySold or PartiallySold.
LotStep ==
    /\ \A i \in Indices(db'.oil_cake_inventory) :
         LET lot == db'.oil_cake_inventory[i]
         IN  /\ 0 <= lot.quantity_remaining
             /\ lot.quantity_remaining <= lot.quantity_produced
             /\ IF i \in Indices(db.oil_cake_inventory)
                THEN /\ lot.quantity_produced = db.oil_cake_inventory[i].quantity_produced
                     /\ lot.quantity_remaining <= db.oil_cake_inventory[i].quantity_remaining
                     /\ Stage(lot.quantity_produced, lot.quantity_remaining)
                          >= Stage(lot.quantity_produced,
                                   db.oil_cake_inventory[i].quantity_remaining)
                ELSE lot.quantity_remaining = lot.quantity_produced
    /\ \A b \in Indices(db'.batch) :
         /\ 0 <= SludgeRemaining(db'.batch[b])
         /\ SludgeRemaining(db'.batch[b]) <= db'.batch[b].sludge_yield
         /\ IF b \in Indices(db.batch)
            THEN /\ db'.batch[b].sludge_yield = db.batch[b].sludge_yield
                 /\ SludgeRemaining(db'.batch[b]) <= SludgeRemaining(db.batch[b])
            ELSE SludgeRemaining(db'.batch[b]) = db'.batch[b].sludge_yield
    /\ Len(db'.oil_cake_inventory) >= Len(db.oil_cake_inventory)
    /\ Len(db'.batch) >= Len(db.batch)

LotMonotone == [][LotStep]_vars

\* A cake lot sold out by two sales.
LotSoldInTwoSales ==
    /\ SaleDone
    /\ \E i \in Indices(db.oil_cake_inventory) :
         /\ db.oil_cake_inventory[i].quantity_remaining = 0
         /\ Cardinality(AllocationsFrom(db, "oil_cake", db.oil_cake_inventory[i].batch_id)) = 2

-----------------------------------------------------------------------------
(* Receipt-order runs: a fixed list of receipts for one material, handed   *)
(* to update_inventory in any order.                                       *)

RecvQuantities == {1, 2}
RecvCosts == {2, 3, 4}

Receipt(qty_purchased, landed_cost_per_unit) ==
    [qty_purchased |-> qty_purchased, landed_cost_per_unit |-> landed_cost_per_unit]

Receipts == {Receipt(q, c) : q \in RecvQuantities, c \in RecvCosts}

InitRecv ==
    /\ db = EmptyDb
    /\ last = NoRequest
    /\ calls \in UNION {[1..n -> Receipts] : n \in 1..MaxCalls}
    /\ applied = {}
    /\ txn = NoTransactions

\* One call of update_inventory, committed by its caller.
Receive(n) ==
    /\ n \notin applied
    /\ db' = [db EXCEPT !.inventory =
                 update_inventory(@, 1, calls[n].qty_purchased, calls[n].landed_cost_per_unit)]
    /\ applied' = applied \cup {n}
    /\ last' = Response("update_inventory", 200, "", calls[n], 1)
    /\ UNCHANGED <<calls, txn>>

NextRecv == \E n \in Indices(calls) : Receive(n)

SpecRecv == InitRecv /\ [][NextRecv]_vars

TotalReceived == SumOver([n \in Indices(calls) |-> calls[n].qty_purchased], Indices(calls))

TotalValue ==
    SumOver([n \in Indices(calls) |-> calls[n].qty_purchased * calls[n].landed_cost_per_unit],
            Indices(calls))

\* C6: once every receipt has been applied, in whatever order, the lot holds
\* closing_stock = sum(qi) and weighted_avg_cost = sum(qi*ci)/sum(qi); the
\* first receipt creates the lot with opening_stock 0, closing_stock q1 and
\* weighted_avg_cost c1.
ReceiptAverage ==
    /\ (Cardinality(applied) = 1) =>
          \E n \in applied :
              /\ Len(db.inventory) = 1
              /\ db.inventory[1].opening_stock = 0
              /\ db.inventory[1].closing_stock = calls[n].qty_purchased
              /\ db.inventory[1].weighted_avg_cost = calls[n].landed_cost_per_unit
    /\ (applied = Indices(calls)) =>
          /\ Len(db.inventory) = 1
          /\ db.inventory[1].closing_stock = TotalReceived
          /\ db.inventory[1].weighted_avg_cost = RoundDiv(TotalValue, TotalReceived)

-----------------------------------------------------------------------------
(* Batch-failure runs: batches with two cost items, any statement of       *)
(* add_batch may raise.                                                    *)

BatchBatches ==
    {BatchRequest(oil_type, 10, 2, 2, 3, cake_yield, 0, 20,
                  <<CostItem(2, NULL, 2, 4), CostItem(3, 1, 2, 2)>>, 2, 0) :
        oil_type \in {"A", "B"}, cake_yield \in {0, 2}}

NextBatch ==
    \/ db.purchases = <<>> /\ AddPurchase(SeedPurchase, 0)
    \/ Len(db.batch) < MaxBatches
         /\ \E data \in BatchBatches, failAt \in AnyFailure : AddBatch(data, failAt)

SpecBatch == Init /\ [][NextBatch]_vars

BatchesOfType(d, oil_type) == {b \in Indices(d.batch) : d.batch[b].oil_type = oil_type}

\* Everything one committed add_batch writes is there, and nothing else is.
BatchComplete(d) ==
    /\ \A b \in Indices(d.batch) :
         /\ d.batch[b].total_production_cost # NULL
         /\ d.batch[b].net_oil_cost # NULL
         /\ d.batch[b].oil_cost_per_kg # NULL
         /\ d.batch[b].cake_estimated_rate # NULL
         /\ d.batch[b].net_oil_cost = OriginalNetOilCost(d.batch[b])
         /\ Cardinality({n \in Indices(d.batch_cost_details) :
                            d.batch_cost_details[n].batch_id = b}) = 2
         /\ Cardinality({i \in Indices(d.oil_cake_inventory) :
                            d.oil_cake_inventory[i].batch_id = b})
               = IF d.batch[b].oil_cake_yield > 0 THEN 1 ELSE 0
    /\ \A n \in Indices(d.batch_cost_details) :
         d.batch_cost_details[n].batch_id \in Indices(d.batch)
    /\ \A i \in Indices(d.oil_cake_inventory) :
         d.oil_cake_inventory[i].batch_id \in Indices(d.batch)
    /\ \A i \in MaterialRows(d.inventory, 1) :
         d.inventory[i].consumption
            = SumOver([b \in Indices(d.batch) |-> d.batch[b].seed_quantity_before_drying],
                      Indices(d.batch))
    /\ \A oil_type \in {"A", "B"} :
         LET S == BatchesOfType(d, oil_type)
             lots == ExtractionOilRows(d.inventory, oil_type)
         IN  IF S = {} THEN lots = {}
             ELSE /\ Cardinality(lots) = 1
                  /\ \A i \in lots :
                       d.inventory[i].closing_stock
                          = SumOver([b \in S |-> d.batch[b].oil_yield], S)

\* C8: an add_batch that fails after BEGIN leaves the seed lot, the oil lot,
\* batch, batch_cost_details and oil_cake_inventory as they were, and every
\* committed state holds whole batches only.
BatchAtomicStep ==
    /\ BatchComplete(db')
    /\ (last'.op = "add_batch" /\ last'.status = 500) => db' = db

BatchAtomic == [][BatchAtomicStep]_vars

\* The second cost-detail insert of a later batch raised: the batch row and
\* the first cost detail had been written, an earlier batch is in the tables.
BatchFailedAtSecondCostDetail ==
    /\ last.op = "add_batch"
    /\ last.status = 500
    /\ last.done = 2
    /\ Len(db.batch) = 1
    /\ Len(db.batch_cost_details) = 2

-----------------------------------------------------------------------------
(* Ledger runs: purchases, batches of two oil types, blends of the oil     *)
(* lots and of earlier blends, write-offs of seed.                         *)

BlendComponent(oil_type, source_type, batch_id, percentage, cost_per_kg) ==
    [ oil_type |-> oil_type, source_type |-> source_type, batch_id |-> batch_id,
      percentage |-> percentage, cost_per_kg |-> cost_per_kg ]

BlendRequest(total_quantity, components) ==
    [ total_quantity |-> total_quantity, components |-> components ]

WriteoffRequest(material_id, quantity, scrap_value) ==
    [ material_id |-> material_id, quantity |-> quantity, scrap_value |-> scrap_value ]

LedgerBatches ==
    {BatchRequest(oil_type, 10, 2, 2, 3, 0, 0, 20, <<>>, 0, 0) : oil_type \in {"A", "B"}}

\* Half and half of the oil of batches 1 and 2, or of batch 1 and blend 1.
LedgerBlends ==
    {BlendRequest(total_quantity,
                  <<BlendComponent("A", "extraction", 1, 50 * PctScale, 6),
                    BlendComponent(second[1], second[2], second[3], 50 * PctScale, 8)>>) :
        total_quantity \in {2, 8},
        second \in {<<"B", "extraction", 2>>, <<"Mixed", "blended", 1>>}}
    \cup {BlendRequest(2, <<BlendComponent("A", "extraction", 1, 100 * PctScale, 6)>>)}

LedgerWriteoffs == {WriteoffRequest(1, quantity, 0) : quantity \in {1, 40}}

NextLedger ==
    \/ Len(db.purchases) < MaxLedgerPurchases /\ AddPurchase(SeedPurchase, 0)
    \/ Len(db.batch) < MaxLedgerBatches /\ \E data \in LedgerBatches : AddBatch(data, 0)
    \/ Len(db.blend_batches) < MaxBlends /\ \E data \in LedgerBlends : CreateBlend(data, 0)
    \/ Len(db.material_writeoffs) < MaxWriteoffs
         /\ \E data \in LedgerWriteoffs : AddWriteoff(data, 0)

SpecLedger == Init /\ [][NextLedger]_vars

\* C5: every inventory row satisfies closing_stock = opening_stock +
\* purchases - consumption in every committed state, whichever of purchase
\* receipt, add_batch, create_blend and add_writeoff wrote it.
LedgerBalanced ==
    \A i \in Indices(db.inventory) :
        db.inventory[i].closing_stock
           = db.inventory[i].opening_stock + db.inventory[i].purchases
             - db.inventory[i].consumption

\* The components of a blend request whose source lot is missing or holds
\* less than the quantity the blend takes from it.
ShortComponents(d, data) ==
    {n \in Indices(data.components) :
        SourceRows(d.inventory, data.components[n],
                   QuantityUsed(data.total_quantity, data.components[n].percentage)) = {}}

\* C7: a create_blend with a component whose source lot is missing or too
\* small fails, and writes no blend_batches row, no component row, no blended
\* lot and no decrement.
BlendShortStep ==
    (/\ last'.op = "create_blend"
     /\ last'.status # 500
     /\ BlendRejections(last'.data) = {""}
     /\ ShortComponents(db, last'.data) # {})
    => (last'.status = 400 /\ db' = db)

BlendShortRejected == [][BlendShortStep]_vars

-----------------------------------------------------------------------------
(* Concurrent runs: every worker serves one request on the seed lot in a   *)
(* transaction of its own.  The connection is opened with the defaults of  *)
(* psycopg2.connect, that is READ COMMITTED: a SELECT sees the rows        *)
(* committed so far, an UPDATE waits for the row lock and is then applied  *)
(* to the committed row.  No handler locks the row it reads.               *)

ConcRequests ==
    {[kind |-> "receive", quantity |-> q, cost |-> c] : q \in {1, 2}, c \in {50, 56}}
    \cup {[kind |-> "writeoff", quantity |-> q, cost |-> 0] : q \in {1, 2}}

\* The tables after the seed purchase.
StockedDb ==
    Run(EmptyDb, PurchaseStatements(EmptyDb, SeedPurchase),
        Len(PurchaseStatements(EmptyDb, SeedPurchase)))

InitConc ==
    /\ db = StockedDb
    /\ last = NoRequest
    /\ calls = <<>>
    /\ applied = {}
    /\ txn = NoTransactions

\* The SELECT of closing_stock and weighted_avg_cost that opens
\* update_inventory and add_writeoff.
SelectLot(w, req) ==
    /\ txn[w].pc = "idle"
    /\ LET row == db.inventory[FetchMaterialRow(db.inventory, 1)]
       IN  txn' = [txn EXCEPT ![w] =
                      [pc |-> "selected", kind |-> req.kind, quantity |-> req.quantity,
                       cost |-> req.cost, current_stock |-> row.closing_stock,
                       current_avg |-> row.weighted_avg_cost]]
    /\ UNCHANGED <<db, last, calls, applied>>

\* The writes of the transaction and its COMMIT: the row lock is held from
\* the UPDATE to the COMMIT, so no other worker writes in between.
WriteLot(w) ==
    /\ txn[w].pc = "selected"
    /\ LET t == txn[w]
           data == WriteoffRequest(1, t.quantity, 0)
       IN  /\ db' = IF t.kind = "receive"
                    THEN [db EXCEPT !.inventory =
                             UpdateLot(@, FetchMaterialRow(@, 1), t.current_stock,
                                       t.current_avg, t.quantity, t.cost)]
                    ELSE WriteoffInventory(InsertWriteoff(db, data, t.current_avg),
                                           data, t.current_stock)
           /\ last' = Response(IF t.kind = "receive" THEN "update_inventory" ELSE "add_writeoff",
                               201, "", NoData, 2)
    /\ txn' = [txn EXCEPT ![w].pc = "committed"]
    /\ UNCHANGED <<calls, applied>>

NextConc ==
    \/ \E w \in Workers, req \in ConcRequests : SelectLot(w, req)
    \/ \E w \in Workers : WriteLot(w)

SpecConc == InitConc /\ [][NextConc]_vars

Committed(kind) == {w \in Workers : txn[w].pc = "committed" /\ txn[w].kind = kind}

\* C11: whatever the interleaving of the workers' transactions, nothing
\* committed is lost: the seed lot holds the initial stock plus every
\* committed receipt minus every committed write-off.
NoLostUpdate ==
    db.inventory[1].closing_stock
       = StockedDb.inventory[1].closing_stock
         + SumOver([w \in Workers |-> txn[w].quantity], Committed("receive"))
         - SumOver([w \in Workers |-> txn[w].quantity], Committed("writeoff"))

-----------------------------------------------------------------------------
(* Seed-consumption runs: batches that dry 4 or 8 kg of a 12 kg purchase,  *)
(* some with more seed after drying than before, some asking for more      *)
(* seed than was ever bought.                                              *)

SeedBatches ==
    {BatchRequest(oil_type, 10, before_after[1], before_after[2], 3, 0, 0, 20, <<>>, 0, 0) :
        oil_type \in {"A", "B"},
        before_after \in {<<4, 4>>, <<4, 3>>, <<8, 9>>, <<8, 6>>, <<20, 5>>, <<20, 21>>}}

NextSeed ==
    \/ db.purchases = <<>> /\ AddPurchase(SeedPurchase, 0)
    \/ Len(db.batch) < MaxSeedBatches /\ \E data \in SeedBatches : AddBatch(data, 0)

SpecSeed == Init /\ [][NextSeed]_vars

\* closing_stock of the seed lot of material m, 0 when it has no lot.
SeedStock(d, m) ==
    IF MaterialRows(d.inventory, m) = {} THEN 0
    ELSE d.inventory[LatestRow(MaterialRows(d.inventory, m))].closing_stock

\* C12: add_batch answers 400 and changes no row when seed after drying
\* exceeds seed before drying or when the seed lot holds less than the seed
\* before drying; an accepted batch lowers closing_stock of the seed lot by
\* seed_quantity_before_drying and raises its consumption by the same amount.
SeedStep ==
    (last'.op = "add_batch" /\ last'.status # 500) =>
        LET data == last'.data
            m == data.material_id
        IN  IF data.seed_quantity_after_drying > data.seed_quantity_before_drying
            THEN last'.status = 400 /\ last'.error = "after_exceeds_before" /\ db' = db
            ELSE IF SeedStock(db, m) < data.seed_quantity_before_drying
            THEN last'.status = 400 /\ last'.error = "insufficient_stock" /\ db' = db
            ELSE /\ last'.status = 201
                 /\ \A i \in MaterialRows(db.inventory, m) :
                      /\ db'.inventory[i].closing_stock
                            = db.inventory[i].closing_stock - data.seed_quantity_before_drying
                      /\ db'.inventory[i].consumption
                            = db.inventory[i].consumption + data.seed_quantity_before_drying
                      /\ db'.inventory[i].closing_stock >= 0

SeedChecked == [][SeedStep]_vars

\* A batch of 8 kg refused for want of seed after an earlier batch had
\* consumed from the 12 kg lot.
SeedShortAfterConsumption ==
    /\ last.op = "add_batch"
    /\ last.status = 400
    /\ last.error = "insufficient_stock"
    /\ last.data.seed_quantity_before_drying = 8
    /\ Len(db.batch) >= 1
    /\ SeedStock(db, 1) < 8

-----------------------------------------------------------------------------
(* Percentage runs: blends of two components whose percentages sum to      *)
(* 99.5, 99.989, 99.99, 99.995, 100, 100.005, 100.01, 100.011 and 100.5,   *)
(* and a blend of one component.                                           *)

\* Percentage of the second component, in thousandths of a percent, next to
\* a first component of 50 percent.
SecondPercentages ==
    {49500, 49989, 49990, 49995, 50000, 50005, 50010, 50011, 50500}

PctBlends ==
    {BlendRequest(2, <<BlendComponent("A", "extraction", 1, 50 * PctScale, 6),
                       BlendComponent("B", "extraction", 2, pct, 8)>>) :
        pct \in SecondPercentages}
    \cup {BlendRequest(2, <<BlendComponent("A", "extraction", 1, 100 * PctScale, 6)>>)}

NextPct ==
    \/ db.purchases = <<>> /\ AddPurchase(SeedPurchase, 0)
    \/ Len(db.batch) < MaxPctBatches /\ \E data \in LedgerBatches : AddBatch(data, 0)
    \/ Len(db.blend_batches) < MaxPctBlends /\ \E data \in PctBlends : CreateBlend(data, 0)

SpecPct == Init /\ [][NextPct]_vars

\* Distance of the percentages of a request from 100, in units of PctScale.
PercentageGap(data) == Abs(TotalPercentage(data.components) - 100 * PctScale)

\* C13: create_blend accepts a request only if it has at least 2
\* components and percentages within 0.01 of 100; it accepts every request
\* of at least 2 components within 0.005 of 100; a rejected request leaves
\* blend_batches, blend_batch_components and inventory as they were.
PctStep ==
    (last'.op = "create_blend" /\ last'.status # 500) =>
        LET data == last'.data
        IN  /\ last'.status \in {201, 400}
            /\ last'.status = 201 =>
                  /\ Len(data.components) >= 2
                  /\ 100 * PercentageGap(data) <= PctScale
                  /\ Len(db'.blend_batches) = Len(db.blend_batches) + 1
            /\ (Len(data.components) >= 2 /\ 200 * PercentageGap(data) <= PctScale) =>
                  last'.status = 201
            /\ last'.status = 400 => db' = db

PctChecked == [][PctStep]_vars

\* A sum of 99.5 refused after a sum of 100.005 or of 99.995 had been
\* accepted.
PctRejectedAfterAccepted ==
    /\ last.op = "create_blend"
    /\ last.status = 400
    /\ last.error = "percentages"
    /\ 2 * PercentageGap(last.data) = PctScale
    /\ Len(db.blend_batches) = 1
    /\ \E n \in Indices(db.blend_batch_components) :
         200 * Abs(db.blend_batch_components[n].percentage - 50 * PctScale) = PctScale

-----------------------------------------------------------------------------
(* Purchase runs: purchases of one or two items, with and without a zero   *)
(* quantity or rate, GST, item charges and header charges; any statement   *)
(* of add_purchase may raise.                                              *)

PurchaseItems ==
    {PurchaseItem(1, qr[1], qr[2], gst_rate, transport_charges, 0) :
        qr \in {<<2, 50>>, <<0, 50>>, <<2, 0>>},
        gst_rate \in {0, 10}, transport_charges \in {0, 20}}

PurchaseRequests ==
    {PurchaseRequest(<<item>>, transport_cost, 0) :
        item \in PurchaseItems, transport_cost \in {0, 6}}
    \cup {PurchaseRequest(<<PurchaseItem(1, 2, 50, 10, 20, 0), PurchaseItem(1, 2, 50, 0, 0, 0)>>,
                          transport_cost, 0) : transport_cost \in {0, 6}}

NextPurchase ==
    Len(db.purchases) < MaxPurchases
        /\ \E data \in PurchaseRequests, failAt \in AnyFailure : AddPurchase(data, failAt)

SpecPurchase == Init /\ [][NextPurchase]_vars

\* The items of a request that carry a quantity or a rate that is not positive.
InvalidItems(data) ==
    {n \in Indices(data.items) : data.items[n].quantity <= 0 \/ data.items[n].rate <= 0}

\* C14: a purchase with an item whose quantity or rate is not positive is
\* answered 400 and records nothing: no purchase, no item, no inventory or
\* material-cost change.
PurchaseValidatedStep ==
    (/\ last'.op = "add_purchase"
     /\ last'.status # 500
     /\ InvalidItems(last'.data) # {})
    => (last'.status = 400 /\ db' = db)

PurchaseValidated == [][PurchaseValidatedStep]_vars

ItemsOf(d, purchase_id) ==
    {n \in Indices(d.purchase_items) : d.purchase_items[n].purchase_id = purchase_id}

\* C15: for every recorded purchase whose items all have a positive
\* quantity, the landed cost of the items covers all charges: the sum of
\* quantity * landed_cost_per_unit over the items is the purchase's total_cost.
LandedCostCoversTotal ==
    \A purchase_id \in Indices(db.purchases) :
        LET S == ItemsOf(db, purchase_id)
        IN  (\A n \in S : db.purchase_items[n].quantity > 0) =>
                SumOver([n \in S |-> db.purchase_items[n].quantity
                                     * db.purchase_items[n].landed_cost_per_unit], S)
                   = db.purchases[purchase_id].total_cost

-----------------------------------------------------------------------------
(* Yield runs: batches of 4 kg of seed out of a lot of 12 kg, with an oil  *)
(* yield of 0, 2 or 4 kg, with and without cake and sludge.                *)

YieldBatches ==
    {BatchRequest("A", 10, 4, 3, oil_yield, cake_yield, sludge_yield, 20, <<>>, cake_rate, 2) :
        oil_yield \in {0, 2, 4}, cake_yield \in {0, 2}, sludge_yield \in {0, 1},
        cake_rate \in {1, 3}}

NextYield ==
    \/ db.purchases = <<>> /\ AddPurchase(SeedPurchase, 0)
    \/ Len(db.batch) < MaxYieldBatches /\ \E data \in YieldBatches : AddBatch(data, 0)

SpecYield == Init /\ [][NextYield]_vars

\* The batch row written by the request just answered carries the net cost
\* and the cost per kg of its own figures.
YieldCostsStored ==
    LET data  == last'.data
        batch == db'.batch[Len(db'.batch)]
    IN  /\ Len(db'.batch) = Len(db.batch) + 1
        /\ batch.net_oil_cost
              = batch.total_production_cost
                - data.cake_yield * data.cake_estimated_rate
                - data.sludge_yield * data.sludge_estimated_rate
        /\ batch.oil_cost_per_kg
              = IF data.oil_yield > 0 THEN RoundDiv(batch.net_oil_cost, data.oil_yield) ELSE 0

\* A successful add_batch stores net_oil_cost and oil_cost_per_kg as above.
YieldCostStep ==
    (last'.op = "add_batch" /\ last'.status = 201) => YieldCostsStored

YieldCostChecked == [][YieldCostStep]_vars

\* C16: a successful add_batch stores net_oil_cost = total_production_cost
\* - cake_yield * cake_estimated_rate - sludge_yield * sludge_estimated_rate
\* and oil_cost_per_kg = net_oil_cost / oil_yield, and a batch with
\* oil_yield = 0 whose seed figures and stock are in order is accepted with
\* oil_cost_per_kg = 0.
YieldStep ==
    /\ YieldCostStep
    /\ (/\ last'.op = "add_batch"
        /\ last'.status # 500
        /\ last'.data.oil_yield = 0
        /\ last'.data.seed_quantity_after_drying <= last'.data.seed_quantity_before_drying
        /\ SeedStock(db, last'.data.material_id) >= last'.data.seed_quantity_before_drying)
       => (last'.status = 201 /\ db'.batch[Len(db'.batch)].oil_cost_per_kg = 0)

YieldAccepted == [][YieldStep]_vars

-----------------------------------------------------------------------------
(* Runs of the single-item purchase handler: purchases of 2 or 4 kg with   *)
(* and without GST and freight; any of its statements may raise.           *)

LegacyPurchases ==
    {LegacyPurchaseRequest(1, quantity, cost_per_unit, gst_rate, transport_cost, 0) :
        quantity \in {2, 4}, cost_per_unit \in {50, 56}, gst_rate \in {0, 10},
        transport_cost \in {0, 20}}

NextLegacy ==
    Len(db.purchases) < MaxLegacyPurchases
        /\ \E data \in LegacyPurchases, failAt \in AnyFailure : LegacyAddPurchase(data, failAt)

SpecLegacy == Init /\ [][NextLegacy]_vars

\* The materials named by a recorded purchase: by a purchase item, or by the
\* purchase row itself where the purchase is a single-item one.
PurchasedMaterials(d) ==
    {d.purchase_items[n].material_id : n \in Indices(d.purchase_items)}
    \cup {d.purchases[n].material_id :
            n \in {i \in Indices(d.purchases) : "material_id" \in DOMAIN d.purchases[i]}}

\* C17: in every committed state, a material with at least one recorded
\* purchase has materials.current_cost equal to the weighted_avg_cost of its
\* inventory lot.
CurrentCostFresh ==
    \A m \in PurchasedMaterials(db) :
        /\ MaterialRows(db.inventory, m) # {}
        /\ db.materials[m].current_cost
              = db.inventory[LatestRow(MaterialRows(db.inventory, m))].weighted_avg_cost

-----------------------------------------------------------------------------
(* Consumption runs: 12 kg of seed bought at 50; batches taking 4 or 12 kg *)
(* of it and yielding 3 kg of oil; write-offs of 4 or 12 kg; blends taking *)
(* 1 or 3 kg from each of two oil lots, 3 kg being all a lot holds.        *)

ConsumeBatches ==
    {BatchRequest(oil_type, 10, seed, seed, 3, 0, 0, 20, <<>>, 0, 0) :
        oil_type \in {"A", "B"}, seed \in {4, 12}}

ConsumeBlends ==
    {BlendRequest(total_quantity,
                  <<BlendComponent("A", "extraction", 1, 50 * PctScale, 7),
                    BlendComponent("B", "extraction", 2, 50 * PctScale, 7)>>) :
        total_quantity \in {2, 6}}

ConsumeWriteoffs == {WriteoffRequest(1, quantity, 0) : quantity \in {4, 12}}

NextConsume ==
    \/ db.purchases = <<>> /\ AddPurchase(SeedPurchase, 0)
    \/ Len(db.batch) < MaxConsumeBatches /\ \E data \in ConsumeBatches : AddBatch(data, 0)
    \/ Len(db.blend_batches) < MaxConsumeBlends
         /\ \E data \in ConsumeBlends : CreateBlend(data, 0)
    \/ Len(db.material_writeoffs) < MaxConsumeWriteoffs
         /\ \E data \in ConsumeWriteoffs : AddWriteoff(data, 0)

SpecConsume == Init /\ [][NextConsume]_vars

\* C18: a batch, a blend or a write-off leaves weighted_avg_cost of every
\* inventory row it consumes from as it was, also when it takes the row's
\* closing_stock down to zero.
ConsumptionStep ==
    (last'.op \in {"add_batch", "create_blend", "add_writeoff"} /\ last'.status = 201) =>
        \A i \in Indices(db.inventory) :
            (\/ db'.inventory[i].consumption # db.inventory[i].consumption
             \/ db'.inventory[i].closing_stock < db.inventory[i].closing_stock)
            => db'.inventory[i].weighted_avg_cost = db.inventory[i].weighted_avg_cost

ConsumptionKeepsCost == [][ConsumptionStep]_vars

\* The seed lot emptied by two batches and a write-off, and both oil lots
\* emptied by a blend, each still carrying its cost.
LotsEmptiedAtCost ==
    /\ last.op = "create_blend"
    /\ last.status = 201
    /\ Len(db.material_writeoffs) = 1
    /\ Len(db.batch) = 2
    /\ \A i \in Indices(db.inventory) :
         db.inventory[i].source_type # "blended" =>
            /\ db.inventory[i].closing_stock = 0
            /\ db.inventory[i].consumption > 0
            /\ db.inventory[i].weighted_avg_cost > 0

-----------------------------------------------------------------------------
(* Blend-cost runs: blends of 3 or 4 kg from the oil of two batches, in    *)
(* proportions 50/50 and 25/75, at costs 6 and 8 or 6 and 10.              *)

MixBlends ==
    {BlendRequest(total_quantity,
                  <<BlendComponent("A", "extraction", 1, pct * PctScale, 6),
                    BlendComponent("B", "extraction", 2, (100 - pct) * PctScale, cost_per_kg)>>) :
        total_quantity \in {3, 4}, pct \in {50, 25}, cost_per_kg \in {8, 10}}

NextMix ==
    \/ db.purchases = <<>> /\ AddPurchase(SeedPurchase, 0)
    \/ Len(db.batch) < MaxMixBatches /\ \E data \in LedgerBatches : AddBatch(data, 0)
    \/ Len(db.blend_batches) < MaxMixBlends /\ \E data \in MixBlends : CreateBlend(data, 0)

SpecMix == Init /\ [][NextMix]_vars

ComponentsOf(d, blend_id) ==
    {n \in Indices(d.blend_batch_components) : d.blend_batch_components[n].blend_id = blend_id}

\* The inventory rows of the lot a blend produced.
BlendLots(d, blend_id) ==
    {i \in Indices(d.inventory) :
        d.inventory[i].source_type = "blended" /\ d.inventory[i].source_reference_id = blend_id}

\* stored is the storable value nearest to numerator / denominator.
Nearest(stored, numerator, denominator) ==
    2 * Abs(stored * denominator - numerator) <= denominator

\* The figures of one blend agree with each other.
BlendCosted(d, blend_id) ==
    LET blend == d.blend_batches[blend_id]
        rows  == d.blend_batch_components
        S     == ComponentsOf(d, blend_id)
        exact == \A n \in S : rows[n].quantity_used * 100 * PctScale
                                 = blend.total_quantity * rows[n].percentage
    IN  /\ \A n \in S :
              Nearest(rows[n].quantity_used, blend.total_quantity * rows[n].percentage,
                      100 * PctScale)
        /\ Nearest(blend.weighted_avg_cost,
                   SumOver([n \in S |-> blend.total_quantity * rows[n].percentage
                                        * rows[n].cost_per_unit], S),
                   100 * PctScale * blend.total_quantity)
        /\ exact => Nearest(blend.weighted_avg_cost,
                            SumOver([n \in S |-> rows[n].quantity_used * rows[n].cost_per_unit], S),
                            blend.total_quantity)
        /\ Cardinality(BlendLots(d, blend_id)) = 1
        /\ \A i \in BlendLots(d, blend_id) :
              /\ d.inventory[i].closing_stock = blend.total_quantity
              /\ d.inventory[i].opening_stock = blend.total_quantity
              /\ d.inventory[i].weighted_avg_cost = blend.weighted_avg_cost

\* C19: for every recorded blend, each component's quantity_used is
\* total_quantity * percentage / 100, the blend's weighted_avg_cost is the sum
\* of quantity_used * cost_per_unit over its components divided by
\* total_quantity, and the lot created for the blend holds total_quantity at
\* that cost (quotients to the nearest storable value).
BlendStep ==
    (last'.op = "create_blend" /\ last'.status = 201) =>
        /\ Len(db'.blend_batches) = Len(db.blend_batches) + 1
        /\ BlendCosted(db', Len(db'.blend_batches))

BlendCostChecked == [][BlendStep]_vars

\* A second blend, of 4 kg: 1 kg at 6 and 3 kg at 10, lot of 4 kg at 9.
UnevenBlendCosted ==
    /\ last.op = "create_blend"
    /\ last.status = 201
    /\ Len(db.blend_batches) = 2
    /\ db.blend_batches[2].total_quantity = 4
    /\ db.blend_batches[2].weighted_avg_cost = 9
    /\ {db.blend_batch_components[n].quantity_used : n \in ComponentsOf(db, 2)} = {1, 3}
    /\ \E i \in BlendLots(db, 2) :
         db.inventory[i].closing_stock = 4 /\ db.inventory[i].weighted_avg_cost = 9

-----------------------------------------------------------------------------
(* Cost-detail runs: batches with one cost detail of quantity 2, with and  *)
(* without an override rate, whose total_cost as sent is or is not the     *)
(* product of quantity and rate; with and without a seed cost.             *)

DetailItems ==
    {CostItem(2, NULL, 2, 4), CostItem(3, 1, 2, 2), CostItem(5, NULL, 2, 7), CostItem(3, 1, 2, 6)}

DetailBatches ==
    {BatchRequest(oil_type, 10, 2, 2, 3, 0, 0, seed_cost_total, <<cost_item>>, 0, 0) :
        oil_type \in {"A", "B"}, seed_cost_total \in {0, 20}, cost_item \in DetailItems}

NextDetail ==
    \/ db.purchases = <<>> /\ AddPurchase(SeedPurchase, 0)
    \/ Len(db.batch) < MaxDetailBatches /\ \E data \in DetailBatches : AddBatch(data, 0)

SpecDetail == Init /\ [][NextDetail]_vars

DetailsOf(d, batch_id) ==
    {n \in Indices(d.batch_cost_details) : d.batch_cost_details[n].batch_id = batch_id}

\* C20: total_production_cost of an accepted batch is the sum over its cost
\* details of quantity * effective rate (the override rate where one was
\* sent, else the master rate), on top of the seed cost of the request, and
\* every cost detail row stored has total_cost = quantity * effective rate.
DetailStep ==
    (last'.op = "add_batch" /\ last'.status = 201) =>
        LET batch_id == Len(db'.batch)
            rows     == db'.batch_cost_details
            S        == DetailsOf(db', batch_id)
        IN  /\ \A n \in S : rows[n].total_cost = rows[n].quantity * rows[n].override_rate
            /\ db'.batch[batch_id].total_production_cost
                  = last'.data.seed_cost_total
                    + SumOver([n \in S |-> rows[n].quantity * rows[n].override_rate], S)

DetailsMultiplied == [][DetailStep]_vars

-----------------------------------------------------------------------------
(* Inventory-row runs: one purchase of seed, then write-offs through       *)
(* either write-off handler and a batch.                                   *)

RowsWriteoffs == {WriteoffRequest(1, quantity, 0) : quantity \in {1, 4}}

RowsBatches == {BatchRequest("A", 10, seed, seed, 3, 0, 0, 20, <<>>, 0, 0) : seed \in {2, 4}}

NextRows ==
    \/ db.purchases = <<>> /\ AddPurchase(SeedPurchase, 0)
    \/ Len(db.material_writeoffs) < MaxRowsWriteoffs
         /\ \E data \in RowsWriteoffs, failAt \in AnyFailure : AddWriteoff(data, failAt)
    \/ Len(db.material_writeoffs) < MaxRowsWriteoffs
         /\ \E data \in RowsWriteoffs, failAt \in AnyFailure : LegacyAddWriteoff(data, failAt)
    \/ Len(db.batch) < MaxRowsBatches /\ \E data \in RowsBatches : AddBatch(data, 0)

SpecRows == Init /\ [][NextRows]_vars

\* C21: after any sequence of purchases, write-offs and batches the
\* inventory table holds at most one row per material and at most one
\* extraction lot per oil type.
OneRowPerLot ==
    /\ \A m \in Materials : Cardinality(MaterialRows(db.inventory, m)) <= 1
    /\ \A oil_type \in {"A", "B"} : Cardinality(ExtractionOilRows(db.inventory, oil_type)) <= 1

-----------------------------------------------------------------------------
(* Status-code runs: purchases through both purchase handlers, with a      *)
(* well-formed item, an item of quantity 0 and an item without a quantity; *)
(* any statement may raise.                                                *)

\* The item without the key.
WithoutKey(item, key) == [f \in DOMAIN item \ {key} |-> item[f]]

StatusPurchases ==
    {PurchaseRequest(<<item>>, 0, 0) :
        item \in {PurchaseItem(1, 2, 50, 0, 0, 0), PurchaseItem(1, 4, 56, 0, 0, 0),
                  PurchaseItem(1, 0, 50, 0, 0, 0),
                  WithoutKey(PurchaseItem(1, 2, 50, 0, 0, 0), "quantity")}}

StatusLegacyPurchases ==
    {LegacyPurchaseRequest(1, quantity, cost_per_unit, 0, 0, 0) :
        quantity \in {0, 2}, cost_per_unit \in {50, 56}}

NextStatus ==
    \/ Len(db.purchases) < MaxStatusPurchases
         /\ \E data \in StatusPurchases, failAt \in AnyFailure : AddPurchase(data, failAt)
    \/ Len(db.purchases) < MaxStatusPurchases
         /\ \E data \in StatusLegacyPurchases, failAt \in AnyFailure : LegacyAddPurchase(data, failAt)

SpecStatus == Init /\ [][NextStatus]_vars

\* The request lacks a quantity or carries one that is not positive.
MalformedPurchase(data) ==
    IF "items" \in DOMAIN data
    THEN \E n \in Indices(data.items) :
            \/ "quantity" \notin DOMAIN data.items[n]
            \/ data.items[n].quantity <= 0
    ELSE data.quantity <= 0

\* C22: add_purchase answers 200 or 201 only when the whole purchase is
\* committed, 400 for a missing or out-of-range input, 500 for a failure of
\* the store and for nothing else, and any answer other than 200 or 201
\* leaves every table as it was.
StatusStep ==
    (last'.op = "add_purchase") =>
        /\ (last'.data # NoData /\ MalformedPurchase(last'.data))
              => (last'.status = 400 /\ db' = db)
        /\ (last'.status = 500) <=> (last'.error = "exception")
        /\ (last'.status \notin {200, 201}) => db' = db
        /\ (last'.status \in {200, 201}) => Len(db'.purchases) = Len(db.purchases) + 1

StatusClassified == [][StatusStep]_vars

-----------------------------------------------------------------------------
(* Concurrent sales: a batch that left 5 kg of cake and 5 kg of sludge,    *)
(* and two workers each running add_material_sale for 2, 3 or 5 kg.        *)

SaleConcRequests ==
    {SaleRequest(byproduct_type, NullText, quantity_sold, 12) :
        byproduct_type \in {"oil_cake", "sludge"}, quantity_sold \in {2, 3, 5}}

\* The tables after the seed purchase and one batch with cake and sludge.
ByProductDb ==
    LET data == BatchRequest("A", 10, 2, 2, 3, 5, 5, 100, <<>>, 10, 4)
    IN  Run(StockedDb, BatchStatements(StockedDb, data), Len(BatchStatements(StockedDb, data)))

InitSaleConc ==
    /\ db = ByProductDb
    /\ last = NoRequest
    /\ calls = <<>>
    /\ applied = {}
    /\ txn = NoTransactions

\* BEGIN, the SELECT of the lots and the stock check of add_material_sale.
SelectLots(w, data) ==
    /\ txn[w].pc = "idle"
    /\ \E available_batches \in AvailableBatches(db, data.byproduct_type, data.oil_type) :
         txn' = [txn EXCEPT ![w] =
                    [pc |-> IF InsufficientInventory(TotalAvailable(available_batches),
                                                     data.quantity_sold)
                            THEN "rejected" ELSE "selected",
                     data |-> data, available_batches |-> available_batches]]
    /\ UNCHANGED <<db, last, calls, applied>>

\* The INSERTs and UPDATEs of the sale and its COMMIT: allocations follow
\* the list read by the SELECT, the UPDATEs are relative to the rows as they
\* are now.
WriteSale(w) ==
    /\ txn[w].pc = "selected"
    /\ LET stmts == SaleStatements(db, txn[w].data, txn[w].available_batches)
       IN  /\ db' = Run(db, stmts, Len(stmts))
           /\ last' = Response("add_material_sale", 201, "", txn[w].data, Len(stmts))
    /\ txn' = [txn EXCEPT ![w].pc = "committed"]
    /\ UNCHANGED <<calls, applied>>

NextSaleConc ==
    \/ \E w \in Workers, data \in SaleConcRequests : SelectLots(w, data)
    \/ \E w \in Workers : WriteSale(w)

SpecSaleConc == InitSaleConc /\ [][NextSaleConc]_vars

\* C23: whatever the interleaving of two sales, no cake lot has a negative
\* quantity_remaining and the quantity allocated from a lot of cake or
\* sludge over all committed sales is at most the quantity produced.
NotOversold ==
    /\ \A i \in Indices(db.oil_cake_inventory) :
         /\ db.oil_cake_inventory[i].quantity_remaining >= 0
         /\ AllocatedQty(db, AllocationsFrom(db, "oil_cake", db.oil_cake_inventory[i].batch_id))
               <= db.oil_cake_inventory[i].quantity_produced
    /\ \A b \in Indices(db.batch) :
         AllocatedQty(db, AllocationsFrom(db, "sludge", b)) <= db.batch[b].sludge_yield

-----------------------------------------------------------------------------
(* Concurrent consumption: a seed lot of 12 kg, and two workers each       *)
(* running add_batch or add_writeoff for 8 or 12 kg of it.                 *)

ConsumeConcRequests ==
    {[kind |-> "batch", data |-> BatchRequest("A", 10, seed, seed, 3, 0, 0, 20, <<>>, 0, 0)] :
        seed \in {8, 12}}
    \cup {[kind |-> "writeoff", data |-> WriteoffRequest(1, quantity, 0)] : quantity \in {8, 12}}

\* The SELECT of the seed lot and the stock check that open add_batch and
\* add_writeoff.
CheckStock(w, req) ==
    /\ txn[w].pc = "idle"
    /\ LET row == db.inventory[LatestRow(MaterialRows(db.inventory, req.data.material_id))]
           rejection == IF req.kind = "batch" THEN BatchRejection(db, req.data)
                        ELSE WriteoffRejection(db, req.data)
       IN  txn' = [txn EXCEPT ![w] =
                      [pc |-> IF rejection # "" THEN "rejected" ELSE "selected",
                       kind |-> req.kind, data |-> req.data,
                       current_stock |-> row.closing_stock,
                       current_avg |-> row.weighted_avg_cost]]
    /\ UNCHANGED <<db, last, calls, applied>>

\* BEGIN, the statements of the handler and its COMMIT: add_batch lowers
\* closing_stock in place, add_writeoff writes the value it computed from
\* what it read.
ConsumeCommit(w) ==
    /\ txn[w].pc = "selected"
    /\ LET t == txn[w]
           stmts == BatchStatements(db, t.data)
       IN  /\ db' = IF t.kind = "batch"
                    THEN Run(db, stmts, Len(stmts))
                    ELSE WriteoffInventory(InsertWriteoff(db, t.data, t.current_avg),
                                           t.data, t.current_stock)
           /\ last' = Response(IF t.kind = "batch" THEN "add_batch" ELSE "add_writeoff",
                               201, "", t.data, 2)
    /\ txn' = [txn EXCEPT ![w].pc = "committed"]
    /\ UNCHANGED <<calls, applied>>

NextConsumeConc ==
    \/ \E w \in Workers, req \in ConsumeConcRequests : CheckStock(w, req)
    \/ \E w \in Workers : ConsumeCommit(w)

SpecConsumeConc == InitConc /\ [][NextConsumeConc]_vars

\* C24: in every committed state every inventory row has closing_stock >= 0,
\* however the stock checks and the stock updates of concurrent requests
\* interleave.
StockNeverNegative ==
    \A i \in Indices(db.inventory) : db.inventory[i].closing_stock >= 0

-----------------------------------------------------------------------------
(* Merged-lot runs: two batches of 3 kg of oil, of the same oil type or of *)
(* two, and blends that take half from batch 1 and half from batch 2.      *)

MergeBlends ==
    {BlendRequest(total_quantity,
                  <<BlendComponent("A", "extraction", 1, 50 * PctScale, 7),
                    BlendComponent(oil_type, "extraction", 2, 50 * PctScale, 7)>>) :
        total_quantity \in {2, 4}, oil_type \in {"A", "B"}}

NextMerge ==
    \/ db.purchases = <<>> /\ AddPurchase(SeedPurchase, 0)
    \/ Len(db.batch) < MaxMergeBatches /\ \E data \in LedgerBatches : AddBatch(data, 0)
    \/ Len(db.blend_batches) < MaxMergeBlends /\ \E data \in MergeBlends : CreateBlend(data, 0)

SpecMerge == Init /\ [][NextMerge]_vars

\* SUM(quantity_used) of the components that name an extraction batch.
UsedFromBatch(d, batch_id) ==
    LET S == {n \in Indices(d.blend_batch_components) :
                 /\ d.blend_batch_components[n].source_batch_id = batch_id
                 /\ d.blend_batch_components[n].source_type = "extraction"}
    IN  SumOver([n \in S |-> d.blend_batch_components[n].quantity_used], S)

\* The extraction batches get_batches_for_oil_type lists for an oil type,
\* each with its available_quantity.
BatchesForOilType(d, oil_type) ==
    LET joined(b) == {i \in Indices(d.inventory) :
                         /\ d.inventory[i].source_reference_id = b
                         /\ d.inventory[i].source_type = "extraction"
                         /\ d.inventory[i].oil_type = d.batch[b].oil_type}
        unused(b) == d.batch[b].oil_yield - UsedFromBatch(d, b)
    IN  UNION {IF joined(b) = {}
               THEN IF unused(b) > 0
                    THEN {[batch_id |-> b, available_quantity |-> unused(b)]} ELSE {}
               ELSE {[batch_id |-> b, available_quantity |-> d.inventory[i].closing_stock] :
                        i \in {j \in joined(b) : d.inventory[j].closing_stock > 0 \/ unused(b) > 0}} :
               b \in {c \in Indices(d.batch) : d.batch[c].oil_type = oil_type}}

\* Every component of the request is a batch the listing offers, with at
\* least the quantity the blend takes from it.
ComponentsOffered(d, data) ==
    \A n \in Indices(data.components) :
        \E offer \in BatchesForOilType(d, data.components[n].oil_type) :
            /\ offer.batch_id = data.components[n].batch_id
            /\ offer.available_quantity
                  >= QuantityUsed(data.total_quantity, data.components[n].percentage)

\* C25: a successful create_blend whose components are all offered by the
\* batch listing removes from the source lots exactly the total_quantity it
\* adds as the blended lot.
ConserveStep ==
    (/\ last'.op = "create_blend"
     /\ last'.status = 201
     /\ ComponentsOffered(db, last'.data))
    => SumOver([i \in Indices(db.inventory) |->
                   db.inventory[i].closing_stock - db'.inventory[i].closing_stock],
               Indices(db.inventory))
          = last'.data.total_quantity

BlendConservesOil == [][ConserveStep]_vars

-----------------------------------------------------------------------------
(* Cake accounting, over the FIFO runs.                                    *)

\* C26: after any sequence of batches and sales run one after another,
\* every cake lot satisfies cake_sold_quantity + quantity_remaining =
\* quantity_produced = oil_cake_yield of its batch, and cake_sold_quantity
\* is the sum of quantity_allocated over the batch's oil-cake allocations.
CakeAccounted ==
    \A i \in Indices(db.oil_cake_inventory) :
        LET lot   == db.oil_cake_inventory[i]
            batch == db.batch[lot.batch_id]
            sold  == Coalesce(batch.cake_sold_quantity, 0)
        IN  /\ sold + lot.quantity_remaining = lot.quantity_produced
            /\ lot.quantity_produced = batch.oil_cake_yield
            /\ sold = AllocatedQty(db, AllocationsFrom(db, "oil_cake", lot.batch_id))

\* One cake lot sold out and another partly sold, the first by two sales.
CakeSoldAcrossLots ==
    /\ last.op = "add_material_sale"
    /\ last.status = 201
    /\ \E i, j \in Indices(db.oil_cake_inventory) :
         /\ db.oil_cake_inventory[i].quantity_remaining = 0
         /\ Cardinality(AllocationsFrom(db, "oil_cake", db.oil_cake_inventory[i].batch_id)) = 2
         /\ db.oil_cake_inventory[j].quantity_remaining > 0
         /\ db.oil_cake_inventory[j].quantity_remaining < db.oil_cake_inventory[j].quantity_produced

-----------------------------------------------------------------------------
(* Write-off runs: write-offs of -1, 0, 4, 12 and 40 kg of a material, with *)
(* and without scrap value, before and after 12 kg of it were bought,       *)
(* through either write-off handler.                                        *)

WriteoffRuns ==
    {WriteoffRequest(1, quantity, scrap_value) :
        quantity \in {0 - 1, 0, 4, 12, 40}, scrap_value \in {0, 3}}

NextWriteoff ==
    \/ db.purchases = <<>> /\ AddPurchase(SeedPurchase, 0)
    \/ Len(db.material_writeoffs) < MaxWriteoffRuns
         /\ \E data \in WriteoffRuns : AddWriteoff(data, 0)
    \/ Len(db.material_writeoffs) < MaxWriteoffRuns
         /\ \E data \in WriteoffRuns : LegacyAddWriteoff(data, 0)

SpecWriteoff == Init /\ [][NextWriteoff]_vars

\* Sum of the consumption column over the rows of material m.
Consumed(d, m) ==
    SumOver([i \in MaterialRows(d.inventory, m) |-> d.inventory[i].consumption],
            MaterialRows(d.inventory, m))

\* C27: add_writeoff answers 404 for a material without an inventory row
\* and 400 for a quantity <= 0 or above the closing_stock, changing nothing;
\* an accepted write-off lowers the closing_stock of the material by its
\* quantity, raises its consumption by the same, and records total_cost =
\* quantity * weighted_avg_cost and net_loss = total_cost - scrap_value.
WriteoffStep ==
    (last'.op = "add_writeoff" /\ last'.status # 500) =>
        LET data == last'.data
            m    == data.material_id
        IN  IF MaterialRows(db.inventory, m) = {}
            THEN last'.status = 404 /\ db' = db
            ELSE IF data.quantity <= 0 \/ data.quantity > SeedStock(db, m)
            THEN last'.status = 400 /\ db' = db
            ELSE LET row == db.inventory[LatestRow(MaterialRows(db.inventory, m))]
                     rec == db'.material_writeoffs[Len(db'.material_writeoffs)]
                 IN  /\ last'.status = 201
                     /\ Len(db'.material_writeoffs) = Len(db.material_writeoffs) + 1
                     /\ SeedStock(db', m) = SeedStock(db, m) - data.quantity
                     /\ Consumed(db', m) = Consumed(db, m) + data.quantity
                     /\ rec.total_cost = data.quantity * row.weighted_avg_cost
                     /\ rec.net_loss = rec.total_cost - data.scrap_value

WriteoffChecked == [][WriteoffStep]_vars

-----------------------------------------------------------------------------
(* Frame runs: batches of two oil types with cake, a blend of their oil,   *)
(* and cake sales at the estimated rate and above it.                      *)

FrameBatches ==
    {BatchRequest(oil_type, 10, 2, 2, 3, 5, 0, 100, <<>>, 10, 0) : oil_type \in {"A", "B"}}

FrameBlends ==
    {BlendRequest(2, <<BlendComponent("A", "extraction", 1, 50 * PctScale, 17),
                       BlendComponent("B", "extraction", 2, 50 * PctScale, 17)>>)}

FrameSales == {SaleRequest("oil_cake", NullText, q, rate) : q \in {3, 8}, rate \in {10, 12}}

NextFrame ==
    \/ db.purchases = <<>> /\ AddPurchase(SeedPurchase, 0)
    \/ Len(db.batch) < MaxFrameBatches /\ \E data \in FrameBatches : AddBatch(data, 0)
    \/ Len(db.blend_batches) < MaxFrameBlends /\ \E data \in FrameBlends : CreateBlend(data, 0)
    \/ Len(db.oil_cake_sales) < MaxFrameSales /\ \E data \in FrameSales : AddMaterialSale(data, 0)

SpecFrame == Init /\ [][NextFrame]_vars

\* The batch row with the columns a sale may write blanked out.
BatchOutsideSale(batch) ==
    [batch EXCEPT !.net_oil_cost = 0, !.oil_cost_per_kg = 0,
                  !.cake_sold_quantity = 0, !.cake_actual_rate = 0,
                  !.sludge_sold_quantity = 0, !.sludge_actual_rate = 0]

\* C28: add_material_sale leaves the inventory table, the blends and their
\* components as they were, and changes no column of a batch other than
\* net_oil_cost, oil_cost_per_kg and the sold-quantity and actual-rate
\* columns.
SaleFrameStep ==
    (last'.op = "add_material_sale") =>
        /\ db'.inventory = db.inventory
        /\ db'.blend_batches = db.blend_batches
        /\ db'.blend_batch_components = db.blend_batch_components
        /\ Len(db'.batch) = Len(db.batch)
        /\ \A b \in Indices(db.batch) :
              BatchOutsideSale(db'.batch[b]) = BatchOutsideSale(db.batch[b])

SaleFrameKept == [][SaleFrameStep]_vars

\* A sale above the estimated rate after a blend: the batch's cost per kg
\* has moved away from the cost of the oil lot and of the blend built on it.
SaleAfterBlend ==
    /\ last.op = "add_material_sale"
    /\ last.status = 201
    /\ Len(db.blend_batches) = 1
    /\ \E i \in Indices(db.inventory) :
         /\ db.inventory[i].source_type = "extraction"
         /\ db.inventory[i].consumption > 0
         /\ db.batch[db.inventory[i].source_reference_id].net_oil_cost
               # OriginalNetOilCost(db.batch[db.inventory[i].source_reference_id])
         /\ db.batch[db.inventory[i].source_reference_id].oil_cost_per_kg
               # db.inventory[i].weighted_avg_cost

-----------------------------------------------------------------------------
(* Serial numbers: get_next_serial.  Each worker calls it inside a         *)
(* transaction of its own, which then commits or rolls back.  The INSERT   *)
(* ... ON CONFLICT DO UPDATE takes the row of its key and holds it until   *)
(* the transaction ends; a second caller for the same key waits.           *)

SerialKey(material_id, supplier_id, financial_year) ==
    [material_id |-> material_id, supplier_id |-> supplier_id, financial_year |-> financial_year]

SerialKeys == {SerialKey(1, supplier_id, "2025-26") : supplier_id \in {1, 2}}

\* The rows of serial_number_tracking with the key.
SerialRows(table, key) ==
    {i \in Indices(table) : SerialKey(table[i].material_id, table[i].supplier_id,
                                      table[i].financial_year) = key}

\* RETURNING current_serial: 1 from the INSERT, current_serial + 1 from the
\* DO UPDATE.
NextSerial(table, key) ==
    IF SerialRows(table, key) = {} THEN 1
    ELSE table[CHOOSE i \in SerialRows(table, key) : TRUE].current_serial + 1

\* The table once the upsert is committed.
UpsertSerial(table, key, serial) ==
    IF SerialRows(table, key) = {}
    THEN Append(table, key @@ [current_serial |-> serial])
    ELSE [i \in Indices(table) |->
             IF i \in SerialRows(table, key) THEN [table[i] EXCEPT !.current_serial = serial]
             ELSE table[i]]

\* Mutant of KeyLocked: the upsert never waits.
KeyNeverLocked(t, w, key) == FALSE

\* Another transaction has written the row of the key and is still open.
KeyLocked(t, w, key) ==
    \E v \in Workers \ {w} : t[v].pc = "upserted" /\ t[v].key = key

OpenSerialCalls == Cardinality({w \in Workers : txn[w].pc = "upserted"})

GetNextSerial(w, key) ==
    /\ txn[w].pc = "idle"
    /\ ~KeyLocked(txn, w, key)
    /\ txn' = [txn EXCEPT ![w] =
                  [pc |-> "upserted", key |-> key,
                   serial |-> NextSerial(db.serial_number_tracking, key)]]
    /\ UNCHANGED <<db, last, calls, applied>>

CommitSerial(w) ==
    /\ txn[w].pc = "upserted"
    /\ db' = [db EXCEPT !.serial_number_tracking = UpsertSerial(@, txn[w].key, txn[w].serial)]
    /\ calls' = Append(calls, [key |-> txn[w].key, serial |-> txn[w].serial])
    /\ last' = Response("get_next_serial", 200, "", NoData, txn[w].serial)
    /\ txn' = [txn EXCEPT ![w] = IdleTransaction]
    /\ UNCHANGED applied

RollbackSerial(w) ==
    /\ txn[w].pc = "upserted"
    /\ last' = Response("get_next_serial", 500, "exception", NoData, 0)
    /\ txn' = [txn EXCEPT ![w] = IdleTransaction]
    /\ UNCHANGED <<db, calls, applied>>

NextSerialRun ==
    \/ Len(calls) + OpenSerialCalls < MaxSerialCalls
         /\ \E w \in Workers, key \in SerialKeys : GetNextSerial(w, key)
    \/ \E w \in Workers : CommitSerial(w)
    \/ \E w \in Workers : RollbackSerial(w)

SpecSerial == Init /\ [][NextSerialRun]_vars

\* C29: the committed calls of get_next_serial for one key return 1, 2, 3,
\* ... in the order they commit, each key counting on its own; no two of
\* them return the same serial.
SerialsCount ==
    \A n \in Indices(calls) :
        calls[n].serial = Cardinality({m \in 1..n : calls[m].key = calls[n].key})

\* Committed calls for two keys, the second key served between two calls of
\* the first, while a further call for the first key is open.
SerialsInterleaved ==
    /\ Len(calls) = 3
    /\ \E w \in Workers : txn[w].pc = "upserted" /\ txn[w].key = calls[1].key /\ txn[w].serial = 3
    /\ calls[1].key = calls[3].key
    /\ calls[2].key # calls[1].key
    /\ calls[3].serial = 2
    /\ calls[2].serial = 1

-----------------------------------------------------------------------------
(* Extended costs of a batch under time tracking and cost saving *)

MaxTimeTrackings == 2
MaxCostOverrides == 2
MaxPick == 2

TimeTrackingRequest(batch_id, start_datetime, end_datetime) ==
    [batch_id |-> batch_id, start_datetime |-> start_datetime, end_datetime |-> end_datetime]

ExtendedCostItem(element_id, quantity, rate, override_rate) ==
    [element_id |-> element_id, quantity |-> quantity, rate |-> rate,
     override_rate |-> override_rate, is_applied |-> TRUE]

ExtendedTimeTrackings ==
    {TimeTrackingRequest(1, 0, e) : e \in {NULL, Malformed, 0, 30, 90}}
    \cup {TimeTrackingRequest(NULL, 0, 30)}

ExtendedCostSaves ==
    {[batch_id |-> 1, costs |-> <<ExtendedCostItem(1, 3, 15, o)>>] : o \in {NULL, 20}}
    \cup {[batch_id |-> 1, costs |-> <<ExtendedCostItem(2, 40, 9, NULL)>>],
          [batch_id |-> NULL, costs |-> <<>>]}

NextExtended ==
    \/ Len(db.batch_time_tracking) < MaxTimeTrackings
         /\ \E data \in ExtendedTimeTrackings, failAt \in AnyFailure : SaveTimeTracking(data, failAt)
    \/ Len(db.cost_override_log) < MaxCostOverrides
         /\ \E data \in ExtendedCostSaves, pick \in 1..MaxPick, failAt \in AnyFailure :
                SaveBatchCosts(data, pick, failAt)

SpecExtended == Init /\ [][NextExtended]_vars

\* The cost recorded for an element of a batch: the total over its rows.
RecordedCost(table, batch_id, element_id) ==
    SumOver([i \in Indices(table) |-> table[i].total_cost],
            ExtendedCostRows(table, batch_id, element_id))

\* C30: after every save_time_tracking or save_batch_costs call,
\* batch_extended_costs holds at most one row for each batch and element, so
\* that the row calculate_batch_costs reads back is the whole recorded cost
\* of the element, and a save_batch_costs call that repeats the one before
\* it leaves batch_extended_costs as it was.
ExtendedCostStep ==
    /\ \A i \in Indices(db'.batch_extended_costs) :
           LET row == db'.batch_extended_costs[i]
           IN  /\ ExtendedCostRows(db'.batch_extended_costs, row.batch_id, row.element_id) = {i}
               /\ \A pick \in 1..MaxPick :
                      ExistingCost(db'.batch_extended_costs, row.batch_id, row.element_id, pick)
                      = RecordedCost(db'.batch_extended_costs, row.batch_id, row.element_id)
    /\ (/\ last.op = "save_batch_costs" /\ last.status = 200
        /\ last'.op = "save_batch_costs" /\ last'.status = 200
        /\ last'.data = last.data)
       => db'.batch_extended_costs = db.batch_extended_costs

OneRowPerCostElement == [][ExtendedCostStep]_vars

====
